---- MODULE Spec2Model ----
(***************************************************************************)
(* A model of mne/surface.py: the BEM surface codec, the FreeSurfer mesh   *)
(* and curvature codecs and the geometry completion they feed.             *)
(*                                                                         *)
(* Python values are modelled as follows.  None is the empty tuple and a   *)
(* value that may be None is a tuple of length <= 1 (None or Some(v)).     *)
(* A dict is a record whose DOMAIN is the set of keys present.  An array   *)
(* is a sequence, a matrix a sequence of rows.  Floats are modelled by the *)
(* integers they represent exactly; a quotient the code computes in        *)
(* floating point is kept as the pair <<numerator, denominator>>.          *)
(***************************************************************************)
EXTENDS Integers, Sequences, FiniteSets, TLC

VARIABLES
    tree,         \* the tagged container on disk (what fiff_open returns)
    add_geom,     \* read_bem_surfaces argument
    s_id,         \* read_bem_surfaces argument: None or Some(id)
    pc,           \* position of the running operation
    fid,          \* the container handle: "none", "open" or "closed"
    coord_frame,  \* read_bem_surfaces local
    k,            \* index of the next surface block to read; loop index
    surfs,        \* read_bem_surfaces local: surfaces decoded so far
    ret,          \* what the operation returned (None until it returns)
    err,          \* the message of the error the operation raised ("" if none)
    surf,         \* the surface dict an operation is given or builds (None if none)
    disk,         \* the bytes of the FreeSurfer file (None while there is none)
    wargs,        \* the arguments of the operation (None when it has none)
    rloc,         \* the local variables of the operation
    ico_surf      \* the icosphere dict passed to _create_surf_spacing (None if none)

bemvars == <<tree, add_geom, s_id, pc, fid, coord_frame, k, surfs, ret, err>>

\* what read_bem_surfaces neither reads nor writes
readframe == <<surf, disk, wargs, rloc, ico_surf>>

\* what the FreeSurfer codecs neither read nor write
fsframe == <<tree, add_geom, s_id, fid, coord_frame, k, surfs, surf, ico_surf>>

vars == <<bemvars, surf, disk, wargs, rloc, ico_surf>>

-----------------------------------------------------------------------------
(* Python values *)

None == <<>>
Some(v) == <<v>>

Range(f) == {f[i] : i \in DOMAIN f}

-----------------------------------------------------------------------------
(* fiff definitions, surface.py lines 27-37 and .fiff.constants *)

FIFFB_BEM == 310
FIFFB_BEM_SURF == 311
FIFF_BEM_SURF_ID == 3101
FIFF_BEM_SURF_NNODE == 3103
FIFF_BEM_SURF_NTRI == 3104
FIFF_BEM_SURF_NODES == 3105
FIFF_BEM_SURF_TRIANGLES == 3106
FIFF_BEM_COORD_FRAME == 3112
FIFF_BEM_SIGMA == 3113
FIFF_MNE_COORD_FRAME == 3506
FIFF_MNE_SOURCE_SPACE_NORMALS == 3509
FIFFV_COORD_MRI == 5
FIFFV_BEM_SURF_ID_UNKNOWN == -1

SurfTags == {FIFF_BEM_SURF_ID, FIFF_BEM_SIGMA, FIFF_BEM_SURF_NNODE,
             FIFF_BEM_SURF_NTRI, FIFF_BEM_COORD_FRAME, FIFF_MNE_COORD_FRAME,
             FIFF_BEM_SURF_NODES, FIFF_MNE_SOURCE_SPACE_NORMALS,
             FIFF_BEM_SURF_TRIANGLES}

-----------------------------------------------------------------------------
(* The tagged container.  A block is a function from the tag kinds present *)
(* in it to their data; the file holds at most one BEM block, which holds  *)
(* its own tags and the list of its surface blocks.                        *)

\* find_tag(fid, node, kind): the tag of that kind in the block, or None.
find_tag(node, kind) ==
    IF kind \in DOMAIN node THEN Some(node[kind]) ELSE None

\* dir_tree_find(tree, FIFFB_BEM): the BEM blocks of the file, None if none.
dir_tree_find_bem(t) ==
    IF t.bem = None THEN None ELSE t.bem

\* dir_tree_find(bem, FIFFB_BEM_SURF): the surface blocks, None if none.
dir_tree_find_surf(bem) ==
    IF bem.surfs = <<>> THEN None ELSE Some(bem.surfs)

-----------------------------------------------------------------------------
(* _read_bem_surface, surface.py lines 123-202 *)

\* tag.data - 1 on the triangle matrix (line 197)
ZeroBasedMut(m) == m
ZeroBased(m) == [r \in DOMAIN m |-> [c \in DOMAIN m[r] |-> m[r][c] - 1]]

\* the decoded id: the tag's, or the unknown id (lines 130-135)
SurfId(this) ==
    LET tag == find_tag(this, FIFF_BEM_SURF_ID)
    IN IF tag = None THEN FIFFV_BEM_SURF_ID_UNKNOWN ELSE tag[1]

\* the id filter (lines 137-139): TRUE when the block is to be skipped
IdMismatchMut(this, sid) == sid # None /\ SurfId(this) = sid[1]
IdMismatch(this, sid) == sid # None /\ SurfId(this) # sid[1]

\* res['sigma'] (lines 141-145)
Sigma(this) ==
    LET tag == find_tag(this, FIFF_BEM_SIGMA)
    IN IF tag = None THEN 1 ELSE tag[1]

\* res['coord_frame'] (lines 161-169)
CoordFrame(this, def_coord_frame) ==
    LET tag == find_tag(this, FIFF_MNE_COORD_FRAME)
        tag2 == find_tag(this, FIFF_BEM_COORD_FRAME)
    IN IF tag = None
       THEN IF tag2 = None THEN def_coord_frame ELSE tag2[1]
       ELSE tag[1]

\* res['nn'] (lines 183-187)
Normals(this) ==
    LET tag == find_tag(this, FIFF_MNE_SOURCE_SPACE_NORMALS)
    IN IF tag = None THEN <<>> ELSE tag[1]

\* The shape checks (lines 179, 188, 198): TRUE when the row count is wrong.
RowsDifferMut(m, n) == Len(m) > n
RowsDiffer(m, n) == Len(m) # n

Raise(msg, f) == [raised |-> TRUE, msg |-> msg, res |-> None, fid |-> f]
Return(v, f) == [raised |-> FALSE, msg |-> "", res |-> v, fid |-> f]

\* Every raise of _read_bem_surface is preceded by fid.close().
_read_bem_surface(f, this, def_coord_frame, sid) ==
    LET np_tag == find_tag(this, FIFF_BEM_SURF_NNODE)
        ntri_tag == find_tag(this, FIFF_BEM_SURF_NTRI)
        rr_tag == find_tag(this, FIFF_BEM_SURF_NODES)
        nn_tag == find_tag(this, FIFF_MNE_SOURCE_SPACE_NORMALS)
        tris_tag == find_tag(this, FIFF_BEM_SURF_TRIANGLES)
    IN IF IdMismatch(this, sid) THEN Return(None, f)
       ELSE IF np_tag = None
       THEN Raise("Number of vertices not found", "closed")
       ELSE IF ntri_tag = None
       THEN Raise("Number of triangles not found", "closed")
       ELSE IF rr_tag = None
       THEN Raise("Vertex data not found", "closed")
       ELSE IF RowsDiffer(rr_tag[1], np_tag[1])
       THEN Raise("Vertex information is incorrect", "closed")
       ELSE IF nn_tag # None /\ RowsDiffer(nn_tag[1], np_tag[1])
       THEN Raise("Vertex normal information is incorrect", "closed")
       ELSE IF tris_tag = None
       THEN Raise("Triangulation not found", "closed")
       ELSE IF RowsDiffer(tris_tag[1], ntri_tag[1])
       THEN Raise("Triangulation information is incorrect", "closed")
       ELSE Return(Some([id |-> SurfId(this),
                         sigma |-> Sigma(this),
                         np |-> np_tag[1],
                         ntri |-> ntri_tag[1],
                         coord_frame |-> CoordFrame(this, def_coord_frame),
                         rr |-> rr_tag[1],
                         nn |-> Normals(this),
                         tris |-> ZeroBased(tris_tag[1])]), f)

-----------------------------------------------------------------------------
(* Geometry completion, surface.py lines 205-291, 427-431.  Arrays are     *)
(* 0-based in the code and 1-based here: element i of an array a is        *)
(* a[i + 1].  Vertex and triangle numbers keep the code's 0-based values.  *)

At(a, i) == a[i + 1]

VSub(a, b) == <<a[1] - b[1], a[2] - b[2], a[3] - b[3]>>
VAdd(a, b) == <<a[1] + b[1], a[2] + b[2], a[3] + b[3]>>
Cross(a, b) == <<a[2] * b[3] - a[3] * b[2],
                 a[3] * b[1] - a[1] * b[3],
                 a[1] * b[2] - a[2] * b[1]>>
SumSq(a) == a[1] * a[1] + a[2] * a[2] + a[3] * a[3]

\* np.sqrt on the values the model draws (perfect squares)
Sqrt(n) == CHOOSE r \in 0..n : r * r = n

\* v / size with the division left out
VDivMut(v, size) == v

\* v / size, v a vector and size a divisor of its components
VDiv(v, size) == <<v[1] \div size, v[2] \div size, v[3] \div size>>

RECURSIVE VSum(_)
VSum(vs) == IF vs = <<>> THEN <<0, 0, 0>> ELSE VAdd(Head(vs), VSum(Tail(vs)))

\* size[size == 0] = 1.0 (lines 265, 430)
ClampZero(size) == IF size = 0 THEN 1 ELSE size

\* _normalize_vectors (lines 427-431): rr /= size, in place
_normalize_vectors(rr) ==
    [i \in DOMAIN rr |-> VDiv(rr[i], ClampZero(Sqrt(SumSq(rr[i]))))]

\* tris.ravel() (line 236): the rows one after another
ravel(tris) ==
    [q \in 1..(3 * Len(tris)) |-> tris[((q - 1) \div 3) + 1][((q - 1) % 3) + 1]]

\* np.bincount(verts, minlength=npts) (line 237): the number of occurrences
\* of each value from 0 to the largest, over at least minlength values
bincount(verts, minlength) ==
    LET top == IF \E q \in DOMAIN verts : verts[q] >= minlength
               THEN 1 + CHOOSE v \in Range(verts) : \A w \in Range(verts) : w <= v
               ELSE minlength
    IN [v \in 1..top |-> Cardinality({q \in DOMAIN verts : verts[q] = v - 1})]

\* np.argsort(verts) (line 238): the positions in the order of their values.
\* The default sort is not stable; equal values keep their order ("stable")
\* or come out in the opposite order ("reversed").
argsort(verts, ties) ==
    SortSeq([q \in DOMAIN verts |-> q - 1],
            LAMBDA a, b : \/ verts[a + 1] < verts[b + 1]
                          \/ /\ verts[a + 1] = verts[b + 1]
                             /\ IF ties = "stable" THEN a < b ELSE a > b)

\* np.unravel_index(reord, (len(tris), 3))[0] (line 239): the row of each
\* flat position
unravel_index(reord) == [j \in DOMAIN reord |-> reord[j] \div 3]

\* np.cumsum(np.r_[0, counts]) (line 240)
RECURSIVE cumsum(_)
cumsum(a) ==
    IF a = <<>> THEN <<>>
    ELSE LET front == cumsum(SubSeq(a, 1, Len(a) - 1))
         IN Append(front, (IF front = <<>> THEN 0 ELSE front[Len(front)])
                          + a[Len(a)])

\* np.sort of one slice (line 242); the mutant leaves the slice as it is
np_sortMut(a) == a

np_sort(a) == SortSeq(a, LAMBDA x, y : x < y)

\* lines 236-244 with the tie order argsort took
neighbor_tri_of(tris, npts, ties) ==
    LET verts == ravel(tris)
        counts == bincount(verts, npts)
        reord == argsort(verts, ties)
        tri_idx == unravel_index(reord)
        idx == cumsum(<<0>> \o counts)
    IN [i \in 1..(Len(idx) - 1) |->
           np_sort(SubSeq(tri_idx, idx[i] + 1, idx[i + 1]))]

\* _triangle_neighbors (lines 224-244)
_triangle_neighbors(tris, npts) == neighbor_tri_of(tris, npts, "stable")

\* _accumulate_normals (lines 214-221): nn[v] is the sum of tri_nn[p] over
\* every column j and triangle p with tris[p][j] = v.
_accumulate_normals(tris, tri_nn, npts) ==
    LET col(j, v) == SelectSeq([p \in DOMAIN tris |-> p],
                               LAMBDA p : tris[p][j] = v)
        part(j, v) == VSum([i \in DOMAIN col(j, v) |-> tri_nn[col(j, v)[i]]])
    IN [i \in 1..npts |->
          VAdd(part(1, i - 1), VAdd(part(2, i - 1), part(3, i - 1)))]

\* Indexing rr by a triangle index outside -len(rr)..len(rr)-1 raises
\* IndexError (lines 253-255).
IndexError(this) ==
    \E p \in DOMAIN this.tris : \E c \in 1..3 :
        this.tris[p][c] < -Len(this.rr) \/ this.tris[p][c] >= Len(this.rr)

\* np.bincount of a negative index raises ValueError (line 237).
ValueError(this) ==
    \E p \in DOMAIN this.tris : \E c \in 1..3 : this.tris[p][c] < 0

\* Topological defects (lines 279-284): any vertex with fewer than three
\* neighboring triangles replaces this['neighbor_tri'] by an empty array.
ClearDefects(neighbor_tri) ==
    IF \E i \in DOMAIN neighbor_tri : Len(neighbor_tri[i]) < 3
    THEN <<>>
    ELSE neighbor_tri

\* this['tri_area'] = size / 2.0 (lines 252, 261): the areas are assigned,
\* whatever the dict held.  The mutant adds them to the areas already there.
TriAreaMut(this, size) ==
    [p \in DOMAIN this.tris |->
        IF "tri_area" \in DOMAIN this
        THEN <<this.tri_area[p][1] + size[p], 2>>
        ELSE <<size[p], 2>>]

TriArea(this, size) ==
    [p \in DOMAIN this.tris |-> <<size[p], 2>>]

\* _complete_surface_info (lines 247-291), do_neighbor_vert=False.  The
\* result is the dict with the derived keys set; raised tells an exception.
_complete_surface_info(this) ==
    LET r1(p) == At(this.rr, this.tris[p][1])
        r2(p) == At(this.rr, this.tris[p][2])
        r3(p) == At(this.rr, this.tris[p][3])
        cross == [p \in DOMAIN this.tris |->
                     Cross(VSub(r2(p), r1(p)), VSub(r3(p), r1(p)))]
        size == [p \in DOMAIN this.tris |-> Sqrt(SumSq(cross[p]))]
        tri_nn == [p \in DOMAIN this.tris |->
                     VDiv(cross[p], ClampZero(size[p]))]
        sum(p) == VAdd(r1(p), VAdd(r2(p), r3(p)))
    IN IF IndexError(this)
       THEN [raised |-> TRUE, msg |-> "IndexError", this |-> this]
       ELSE IF ValueError(this)
       THEN [raised |-> TRUE, msg |-> "ValueError", this |-> this]
       ELSE [raised |-> FALSE, msg |-> "",
             this |->
               [key \in DOMAIN this \cup
                        {"tri_area", "tri_cent", "tri_nn", "neighbor_tri", "nn"} |->
                  CASE key = "tri_area" -> TriArea(this, size)
                    [] key = "tri_cent" ->
                         [p \in DOMAIN this.tris |->
                            <<<<sum(p)[1], 3>>, <<sum(p)[2], 3>>, <<sum(p)[3], 3>>>>]
                    [] key = "tri_nn" -> tri_nn
                    [] key = "neighbor_tri" ->
                         ClearDefects(_triangle_neighbors(this.tris, this.np))
                    [] key = "nn" ->
                         _normalize_vectors(
                             _accumulate_normals(this.tris, tri_nn, this.np))
                    [] OTHER -> this[key]]]

\* the keys geometry completion adds to a surface
GeomKeys == {"tri_area", "tri_cent", "tri_nn", "neighbor_tri", "nn"}
HasGeom(s) == GeomKeys \subseteq DOMAIN s

-----------------------------------------------------------------------------
(* The files read_bem_surfaces is run on *)

\* the most surface blocks in a file
MaxSurf == 2

Without(b, tag) == [t \in DOMAIN b \ {tag} |-> b[t]]
With(b, tag, v) == [t \in DOMAIN b \cup {tag} |-> IF t = tag THEN v ELSE b[t]]

\* vertex positions, in the plane z = 0
Points == <<<<0, 0, 0>>, <<1, 0, 0>>, <<0, 1, 0>>, <<1, 1, 0>>>>
UnitZ == <<0, 0, 1>>

\* a well-formed surface block without an id tag: 3 vertices, 1 triangle
GoodSurf ==
    (FIFF_BEM_SURF_NNODE :> 3) @@ (FIFF_BEM_SURF_NTRI :> 1) @@
    (FIFF_BEM_SURF_NODES :> SubSeq(Points, 1, 3)) @@
    (FIFF_BEM_SURF_TRIANGLES :> <<<<1, 2, 3>>>>)

\* the block with one tag added, dropped or changed
Shapes ==
    { GoodSurf,
      With(GoodSurf, FIFF_MNE_SOURCE_SPACE_NORMALS, <<UnitZ, UnitZ, UnitZ>>),
      With(GoodSurf, FIFF_MNE_COORD_FRAME, 4),
      Without(GoodSurf, FIFF_BEM_SURF_NNODE),
      Without(GoodSurf, FIFF_BEM_SURF_NTRI),
      Without(GoodSurf, FIFF_BEM_SURF_NODES),
      With(GoodSurf, FIFF_BEM_SURF_NODES, SubSeq(Points, 1, 2)),
      With(GoodSurf, FIFF_BEM_SURF_NODES, Points),
      With(GoodSurf, FIFF_MNE_SOURCE_SPACE_NORMALS, <<UnitZ, UnitZ>>),
      Without(GoodSurf, FIFF_BEM_SURF_TRIANGLES),
      With(GoodSurf, FIFF_BEM_SURF_TRIANGLES, <<<<1, 2, 3>>, <<1, 3, 2>>>>),
      With(GoodSurf, FIFF_BEM_SURF_TRIANGLES, <<<<0, 1, 2>>>>),
      With(GoodSurf, FIFF_BEM_SURF_TRIANGLES, <<<<2, 3, 4>>>>) }

SurfIds == {1, 3}

SurfBlocks ==
    {With(s, FIFF_BEM_SURF_ID, i) : s \in Shapes, i \in SurfIds} \cup {GoodSurf}

SeqsUpTo(S, n) == UNION {[1..m -> S] : m \in 0..n}

\* the tags of the BEM block itself: the coordinate frame, or none
BemTags == {<<>>, (FIFF_BEM_COORD_FRAME :> 4)}

Trees ==
    {[bem |-> None]} \cup
    {[bem |-> Some([tags |-> t, surfs |-> ss])] :
        t \in BemTags, ss \in SeqsUpTo(SurfBlocks, MaxSurf)}

-----------------------------------------------------------------------------
(* read_bem_surfaces, surface.py lines 41-120, one action per step *)

InitRead ==
    /\ ico_surf = None
    /\ tree \in Trees
    /\ add_geom \in BOOLEAN
    /\ s_id \in {None} \cup {Some(i) : i \in SurfIds}
    /\ pc = "start"
    /\ fid = "none"
    /\ coord_frame = FIFFV_COORD_MRI
    /\ k = 1
    /\ surfs = <<>>
    /\ ret = None
    /\ err = ""
    /\ surf = None
    /\ disk = None
    /\ wargs = None
    /\ rloc = None

bem == tree.bem[1]
bemsurf == bem.surfs

\* line 70
fiff_open ==
    /\ pc = "start"
    /\ fid' = "open"
    /\ pc' = "find_bem"
    /\ UNCHANGED <<tree, add_geom, s_id, coord_frame, k, surfs, ret, err, readframe>>

\* lines 74-79
FindBem ==
    /\ pc = "find_bem"
    /\ IF dir_tree_find_bem(tree) = None
       THEN /\ fid' = "closed"
            /\ err' = "BEM data not found"
            /\ pc' = "raised"
       ELSE /\ pc' = "find_surf"
            /\ UNCHANGED <<fid, err>>
    /\ UNCHANGED <<tree, add_geom, s_id, coord_frame, k, surfs, ret, readframe>>

\* lines 83-94
FindSurf ==
    /\ pc = "find_surf"
    /\ IF dir_tree_find_surf(bem) = None
       THEN /\ fid' = "closed"
            /\ err' = "BEM surface data not found"
            /\ pc' = "raised"
            /\ UNCHANGED coord_frame
       ELSE /\ coord_frame' =
                 IF find_tag(bem.tags, FIFF_BEM_COORD_FRAME) # None
                 THEN find_tag(bem.tags, FIFF_BEM_COORD_FRAME)[1]
                 ELSE coord_frame
            /\ pc' = "read"
            /\ UNCHANGED <<fid, err>>
    /\ UNCHANGED <<tree, add_geom, s_id, k, surfs, ret, readframe>>

\* lines 99-100: one element of the list comprehension; the list keeps the
\* None of a skipped block until line 101 filters it out.
ReadSelected ==
    /\ pc = "read"
    /\ s_id # None
    /\ k <= Len(bemsurf)
    /\ LET r == _read_bem_surface(fid, bemsurf[k], coord_frame, s_id)
       IN IF r.raised
          THEN /\ pc' = "raised"
               /\ err' = r.msg
               /\ fid' = r.fid
               /\ UNCHANGED <<k, surfs>>
          ELSE /\ surfs' = Append(surfs, r.res)
               /\ k' = k + 1
               /\ UNCHANGED <<pc, err, fid>>
    /\ UNCHANGED <<tree, add_geom, s_id, coord_frame, ret, readframe>>

\* line 101
NotNone(ss) == SelectSeq(ss, LAMBDA s : s # None)

\* line 102: the id filter must have kept exactly one surface
OneFoundMut(found) == Len(found) >= 1
OneFound(found) == Len(found) = 1

\* lines 101-105
SelectOne ==
    /\ pc = "read"
    /\ s_id # None
    /\ k > Len(bemsurf)
    /\ LET found == NotNone(surfs)
       IN IF ~OneFound(found)
          THEN /\ pc' = "raised"
               /\ err' = "surface with id not found"
               /\ UNCHANGED <<fid, ret>>
          ELSE /\ fid' = "closed"
               /\ ret' = Some(found[1][1])
               /\ pc' = "done"
               /\ UNCHANGED err
    /\ UNCHANGED <<tree, add_geom, s_id, coord_frame, k, surfs, readframe>>

\* lines 108-114: one iteration of the loop over bemsurf
ReadNext ==
    /\ pc = "read"
    /\ s_id = None
    /\ k <= Len(bemsurf)
    /\ LET r == _read_bem_surface(fid, bemsurf[k], coord_frame, None)
           c == _complete_surface_info(r.res[1])
       IN IF r.raised
          THEN /\ pc' = "raised"
               /\ err' = r.msg
               /\ fid' = r.fid
               /\ UNCHANGED <<k, surfs>>
          ELSE IF add_geom /\ c.raised
          THEN /\ pc' = "raised"
               /\ err' = c.msg
               /\ UNCHANGED <<fid, k, surfs>>
          ELSE /\ surfs' = Append(surfs, IF add_geom THEN c.this ELSE r.res[1])
               /\ k' = k + 1
               /\ UNCHANGED <<pc, err, fid>>
    /\ UNCHANGED <<tree, add_geom, s_id, coord_frame, ret, readframe>>

\* lines 116-120
ReturnAll ==
    /\ pc = "read"
    /\ s_id = None
    /\ k > Len(bemsurf)
    /\ fid' = "closed"
    /\ ret' = Some(surfs)
    /\ pc' = "done"
    /\ UNCHANGED <<tree, add_geom, s_id, coord_frame, k, surfs, err, readframe>>

NextRead ==
    \/ fiff_open
    \/ FindBem
    \/ FindSurf
    \/ ReadSelected
    \/ SelectOne
    \/ ReadNext
    \/ ReturnAll

SpecRead == InitRead /\ [][NextRead]_vars

-----------------------------------------------------------------------------
(* Properties of read_bem_surfaces, checked under SpecRead *)

Terminal == pc \in {"done", "raised"}

\* the errors raised before any surface block is read
TreeErrors == {"BEM data not found", "BEM surface data not found"}

\* the errors _read_bem_surface raises
DecodeErrors ==
    {"Number of vertices not found", "Number of triangles not found",
     "Vertex data not found", "Vertex information is incorrect",
     "Vertex normal information is incorrect", "Triangulation not found",
     "Triangulation information is incorrect"}

\* the surface blocks were located (lines 83-88 passed)
Located == pc \in {"read", "done"} \/ (pc = "raised" /\ err \notin TreeErrors)

\* C1: in no terminal state of read_bem_surfaces, be it the normal return
\* or an error (BEM block missing, no surface blocks, a missing or
\* mismatching tag inside _read_bem_surface, the requested s_id not found
\* exactly once), is the container handle it opened still open.
C1_HandleClosedOnExit ==
    (Terminal /\ err \in {""} \cup TreeErrors \cup DecodeErrors
                              \cup {"surface with id not found"})
        => fid = "closed"

\* C1, the paths that do close: every return, and every error raised before
\* or inside _read_bem_surface, leaves the handle closed.
C1_ClosingPaths ==
    (Terminal /\ err \in {""} \cup TreeErrors \cup DecodeErrors)
        => fid = "closed"

\* the blocks whose decoded id is the requested one
Matching == {i \in DOMAIN bemsurf : SurfId(bemsurf[i]) = s_id[1]}

\* C2: with an s_id filter, read_bem_surfaces ends in one of three ways.  It
\* returns the decoded surface of the block with that id, and then exactly
\* one block has that id; or it fails with the not-found error, and then
\* zero or more than one block has that id; or decoding a block with the
\* requested id raised that block's own error.  A block with another id is
\* skipped and never the cause of an error, whatever its tags.
C2_IdFilter ==
    (Terminal /\ s_id # None /\ Located) =>
        \/ /\ pc = "done"
           /\ Cardinality(Matching) = 1
           /\ ret[1].id = s_id[1]
           /\ \E i \in Matching :
                 ret = _read_bem_surface("open", bemsurf[i], coord_frame, None).res
        \/ /\ pc = "raised"
           /\ err = "surface with id not found"
           /\ Cardinality(Matching) # 1
           /\ k = Len(bemsurf) + 1
        \/ /\ pc = "raised"
           /\ err \in DecodeErrors
           /\ k \in Matching

\* C2 witness: a surface was selected by id from a file that also holds a
\* block with another id and no vertex data, which was skipped.
C2_Witness ==
    /\ pc = "done"
    /\ s_id # None
    /\ \E i \in DOMAIN bemsurf :
          /\ SurfId(bemsurf[i]) # s_id[1]
          /\ FIFF_BEM_SURF_NODES \notin DOMAIN bemsurf[i]

\* block i has been decoded without an error (not skipped by the id filter)
Decoded(i) ==
    /\ Located
    /\ i \in DOMAIN bemsurf
    /\ i < k
    /\ (s_id = None \/ SurfId(bemsurf[i]) = s_id[1])

\* the surface decoded from block i, as the operation holds it
DecodedSurf(i) == IF s_id = None THEN surfs[i] ELSE surfs[i][1]

\* C4: no block whose vertex-position tag is absent or has a row count other
\* than the declared vertex count, or whose triangle tag is absent or has a
\* row count other than the declared triangle count, is decoded: every
\* decoded surface has len(rr) = np and len(tris) = ntri.  A block without a
\* vertex-normal tag is decoded, with empty normals.
C4_ShapeChecked ==
    /\ \A i \in 1..(k - 1) : Decoded(i) =>
          /\ FIFF_BEM_SURF_NODES \in DOMAIN bemsurf[i]
          /\ Len(bemsurf[i][FIFF_BEM_SURF_NODES]) = bemsurf[i][FIFF_BEM_SURF_NNODE]
          /\ FIFF_BEM_SURF_TRIANGLES \in DOMAIN bemsurf[i]
          /\ Len(bemsurf[i][FIFF_BEM_SURF_TRIANGLES]) = bemsurf[i][FIFF_BEM_SURF_NTRI]
          /\ Len(DecodedSurf(i).rr) = DecodedSurf(i).np
          /\ Len(DecodedSurf(i).tris) = DecodedSurf(i).ntri
          /\ (FIFF_MNE_SOURCE_SPACE_NORMALS \notin DOMAIN bemsurf[i] /\ ~add_geom)
                => DecodedSurf(i).nn = <<>>
    /\ (pc = "raised" /\ err \in DecodeErrors) =>
          LET b == bemsurf[k]
              has(t) == t \in DOMAIN b
          IN \/ ~has(FIFF_BEM_SURF_NNODE)
             \/ ~has(FIFF_BEM_SURF_NTRI)
             \/ ~has(FIFF_BEM_SURF_NODES)
             \/ Len(b[FIFF_BEM_SURF_NODES]) # b[FIFF_BEM_SURF_NNODE]
             \/ (has(FIFF_MNE_SOURCE_SPACE_NORMALS) /\
                 Len(b[FIFF_MNE_SOURCE_SPACE_NORMALS]) # b[FIFF_BEM_SURF_NNODE])
             \/ ~has(FIFF_BEM_SURF_TRIANGLES)
             \/ Len(b[FIFF_BEM_SURF_TRIANGLES]) # b[FIFF_BEM_SURF_NTRI]

\* C4 witness: a block without a vertex-normal tag was decoded with empty
\* normals, and the next block was rejected for its vertex row count.
C4_Witness ==
    /\ pc = "raised"
    /\ err = "Vertex information is incorrect"
    /\ k = 2
    /\ Decoded(1)
    /\ FIFF_MNE_SOURCE_SPACE_NORMALS \notin DOMAIN bemsurf[1]
    /\ DecodedSurf(1).nn = <<>>

\* C5: every triangle index of every decoded surface is in 0..np-1.
C5_TriIndexInRange ==
    \A i \in 1..(k - 1) : Decoded(i) =>
        \A p \in DOMAIN DecodedSurf(i).tris : \A c \in 1..3 :
            /\ 0 <= DecodedSurf(i).tris[p][c]
            /\ DecodedSurf(i).tris[p][c] < DecodedSurf(i).np

\* C6: with add_geom, every returned surface carries the derived geometry,
\* whether all surfaces are returned or one is selected by s_id; without
\* s_id there is one surface per block, in file order.
C6_GeomAdded ==
    (pc = "done") =>
        /\ (s_id = None) =>
              /\ Len(ret[1]) = Len(bemsurf)
              /\ \A i \in DOMAIN bemsurf :
                    /\ ret[1][i].id = SurfId(bemsurf[i])
                    /\ add_geom => HasGeom(ret[1][i])
        /\ (s_id # None /\ add_geom) => HasGeom(ret[1])

\* C6, the part that holds: without s_id the surfaces come back in file
\* order, one per block, each completed when add_geom is set.
C6_AllSurfaces ==
    (pc = "done" /\ s_id = None) =>
        /\ Len(ret[1]) = Len(bemsurf)
        /\ \A i \in DOMAIN bemsurf :
              /\ ret[1][i].id = SurfId(bemsurf[i])
              /\ add_geom => HasGeom(ret[1][i])

-----------------------------------------------------------------------------
(* write_bem_surface, surface.py lines 644-677, and the round trip *)

\* surf['tris'] + 1 (line 672)
OneBasedMut(m) == m
OneBased(m) == [r \in DOMAIN m |-> [c \in DOMAIN m[r] |-> m[r][c] + 1]]

\* line 668: 'nn' in surf and surf['nn'] is not None and len(surf['nn']) > 0
HasNormals(s) == "nn" \in DOMAIN s /\ s.nn # None /\ Len(s.nn) > 0

\* the surface block written between start_block and end_block (lines 661-672)
WrittenBlock(s) ==
    (FIFF_BEM_SURF_ID :> s.id) @@ (FIFF_BEM_SIGMA :> s.sigma) @@
    (FIFF_BEM_SURF_NNODE :> s.np) @@ (FIFF_BEM_SURF_NTRI :> s.ntri) @@
    (FIFF_BEM_COORD_FRAME :> s.coord_frame) @@
    (FIFF_BEM_SURF_NODES :> s.rr) @@
    (FIFF_BEM_SURF_TRIANGLES :> OneBased(s.tris)) @@
    (IF HasNormals(s) THEN (FIFF_MNE_SOURCE_SPACE_NORMALS :> s.nn) ELSE <<>>)

\* the file start_file ... end_file leaves: one BEM block, one surface block
WrittenTree(s) ==
    [bem |-> Some([tags |-> <<>>, surfs |-> <<WrittenBlock(s)>>])]

write_bem_surface ==
    /\ pc = "write"
    /\ tree' = WrittenTree(surf[1])
    /\ pc' = "start"
    /\ UNCHANGED <<add_geom, s_id, fid, coord_frame, k, surfs, ret, err, surf>>
    /\ UNCHANGED <<disk, wargs, rloc, ico_surf>>

\* the most triangles of a surface that is written
MaxTri == 2

\* triangles over n vertices, 0-based, in either orientation
TriRows(n) ==
    UNION {{<<a, b, c>>, <<c, b, a>>} :
              <<a, b, c>> \in {t \in (0..(n - 1)) \X (0..(n - 1)) \X (0..(n - 1)) :
                                 t[1] < t[2] /\ t[2] < t[3]}}

\* populated surfaces: np = len(rr), ntri = len(tris), nn absent, empty or
\* one normal per vertex
SurfacesOf(n, tris) ==
    LET core == [id : SurfIds, sigma : {1, 2}, coord_frame : {4, FIFFV_COORD_MRI},
                 np : {n}, ntri : {Len(tris)}, rr : {SubSeq(Points, 1, n)},
                 tris : {tris}]
    IN core \cup
       {[key \in DOMAIN c \cup {"nn"} |-> IF key = "nn" THEN x ELSE c[key]] :
           c \in core, x \in {<<>>, [i \in 1..n |-> UnitZ]}}

Surfaces ==
    UNION {SurfacesOf(n, tris) :
              <<n, tris>> \in {p \in (3..Len(Points)) \X SeqsUpTo(TriRows(Len(Points)), MaxTri) :
                                 /\ Len(p[2]) >= 1
                                 /\ Range(p[2]) \subseteq TriRows(p[1])}}

InitRT ==
    /\ ico_surf = None
    /\ surf \in {Some(s) : s \in Surfaces}
    /\ tree = [bem |-> None]
    /\ add_geom \in BOOLEAN
    /\ s_id = None
    /\ pc = "write"
    /\ fid = "none"
    /\ coord_frame = FIFFV_COORD_MRI
    /\ k = 1
    /\ surfs = <<>>
    /\ ret = None
    /\ err = ""
    /\ disk = None
    /\ wargs = None
    /\ rloc = None

NextRT ==
    \/ write_bem_surface
    \/ fiff_open
    \/ FindBem
    \/ FindSurf
    \/ ReadNext
    \/ ReturnAll

SpecRT == InitRT /\ [][NextRT]_vars

\* C3: write_bem_surface followed by read_bem_surfaces never fails and
\* yields one surface with the id, sigma, np, ntri, coord_frame and 0-based
\* tris of the surface written; on disk the triangles are tris + 1.
C3_BemRoundTrip ==
    /\ pc # "raised"
    /\ (pc # "write") =>
          /\ Len(bemsurf) = 1
          /\ \A p \in DOMAIN surf[1].tris : \A c \in 1..3 :
                bemsurf[1][FIFF_BEM_SURF_TRIANGLES][p][c] = surf[1].tris[p][c] + 1
    /\ (pc = "done") =>
          /\ Len(ret[1]) = 1
          /\ ret[1][1].id = surf[1].id
          /\ ret[1][1].sigma = surf[1].sigma
          /\ ret[1][1].np = surf[1].np
          /\ ret[1][1].ntri = surf[1].ntri
          /\ ret[1][1].coord_frame = surf[1].coord_frame
          /\ ret[1][1].rr = surf[1].rr
          /\ ret[1][1].tris = surf[1].tris

\* C3 witness: a surface with normals, two triangles and both the first and
\* the last vertex index was written and read back.
C3_Witness ==
    /\ pc = "done"
    /\ surf # None
    /\ HasNormals(surf[1])
    /\ surf[1].ntri = 2
    /\ \E p \in DOMAIN surf[1].tris :
          0 \in Range(surf[1].tris[p]) /\ (surf[1].np - 1) \in Range(surf[1].tris[p])
    /\ ret[1][1].tris = surf[1].tris

-----------------------------------------------------------------------------
(* Bytes.  A file is a sequence of bytes; struct.pack and np.fromfile use  *)
(* big-endian two's-complement integers and IEEE-754 single floats.  A     *)
(* float read from or written to a file is the pair <<numerator,           *)
(* denominator>> of the value it holds.                                    *)

LF == 10
CR == 13

RECURSIVE Flat(_)
Flat(ss) == IF ss = <<>> THEN <<>> ELSE Head(ss) \o Flat(Tail(ss))

Min(a, b) == IF a <= b THEN a ELSE b

\* three bytes, most significant first: pack('>3B', ...) and _fread3
U3(n) == <<(n \div 65536) % 256, (n \div 256) % 256, n % 256>>

\* _fread3 (lines 314-317), the three bytes at pos
_fread3(b, pos) == b[pos] * 65536 + b[pos + 1] * 256 + b[pos + 2]

\* '>i4'
I4(n) ==
    LET m == IF n >= 0 THEN n ELSE (n + 2147483647) + 1
        top == IF n >= 0 THEN 0 ELSE 128
    IN <<top + (m \div 16777216), (m \div 65536) % 256, (m \div 256) % 256, m % 256>>

FromI4(b, pos) ==
    LET m == (b[pos] % 128) * 16777216 + b[pos + 1] * 65536
                 + b[pos + 2] * 256 + b[pos + 3]
    IN IF b[pos] >= 128 THEN (m - 2147483647) - 1 ELSE m

\* '>i2'
I2(n) == LET u == IF n >= 0 THEN n ELSE n + 65536 IN <<u \div 256, u % 256>>

FromI2(b, pos) ==
    LET u == b[pos] * 256 + b[pos + 1]
    IN IF u >= 32768 THEN u - 65536 ELSE u

\* '>f4': the floats the model draws and their bytes
F4Table ==
    { <<<<0, 1>>, <<0, 0, 0, 0>>>>,        \* 0.0
      <<<<1, 1>>, <<63, 128, 0, 0>>>>,     \* 1.0
      <<<<2, 1>>, <<64, 0, 0, 0>>>>,       \* 2.0
      <<<<1, 2>>, <<63, 0, 0, 0>>>>,       \* 0.5
      <<<<-3, 2>>, <<191, 192, 0, 0>>>> }  \* -1.5

F4(v) == (CHOOSE e \in F4Table : e[1] = v)[2]
FromF4(b, pos) == (CHOOSE e \in F4Table : e[2] = SubSeq(b, pos, pos + 3))[1]

-----------------------------------------------------------------------------
(* write_surface, surface.py lines 610-638 *)

\* str.splitlines(): the lines of s, split at "\n", "\r" and "\r\n", without
\* the line breaks; no empty last line after a final line break.
RECURSIVE SplitFrom(_, _, _, _)
SplitFrom(s, i, cur, acc) ==
    IF i > Len(s) THEN (IF cur = <<>> THEN acc ELSE Append(acc, cur))
    ELSE IF s[i] = CR /\ i < Len(s) /\ s[i + 1] = LF
    THEN SplitFrom(s, i + 2, <<>>, Append(acc, cur))
    ELSE IF s[i] \in {CR, LF}
    THEN SplitFrom(s, i + 1, <<>>, Append(acc, cur))
    ELSE SplitFrom(s, i + 1, Append(cur, s[i]), acc)

splitlines(s) == SplitFrom(s, 1, <<>>, <<>>)

\* line 628
TooManyLines(create_stamp) == Len(splitlines(create_stamp)) > 1

\* lines 632-638: what the with block writes
SurfaceBytes(coords, faces, create_stamp) ==
    <<255, 255, 254>> \o (create_stamp \o <<LF>>) \o <<LF>>
    \o I4(Len(coords)) \o I4(Len(faces))
    \o Flat([i \in DOMAIN coords |->
               Flat([c \in 1..3 |-> F4(<<coords[i][c], 1>>)])])
    \o Flat([i \in DOMAIN faces |-> Flat([c \in 1..3 |-> I4(faces[i][c])])])

write_surface ==
    /\ pc = "write_surface"
    /\ IF TooManyLines(wargs[1].create_stamp)
       THEN /\ pc' = "raised"
            /\ err' = "create_stamp can only contain one line"
            /\ UNCHANGED disk
       ELSE /\ disk' = Some(SurfaceBytes(wargs[1].coords, wargs[1].faces,
                                         wargs[1].create_stamp))
            /\ pc' = "read_surface"
            /\ UNCHANGED err
    /\ UNCHANGED <<wargs, rloc, ret, fsframe>>

-----------------------------------------------------------------------------
(* read_surface, surface.py lines 342-398.  rloc holds the local variables *)
(* bound so far: a name is in DOMAIN rloc once it has been assigned.       *)

QuadMagic == {16777215, 16777213}
TriangleMagic == 16777214

\* lines 358-360, 384, 391-393
ReadMagic ==
    /\ pc = "read_surface"
    /\ LET magic == _fread3(disk[1], 1)
       IN /\ rloc' = ("magic" :> magic)
          /\ IF magic \in QuadMagic
             THEN pc' = "quad" /\ UNCHANGED err
             ELSE IF magic = TriangleMagic
             THEN pc' = "triangle" /\ UNCHANGED err
             ELSE /\ pc' = "raised"
                  /\ err' = "does not appear to be a Freesurfer surface"
    /\ UNCHANGED <<disk, wargs, ret, fsframe>>

\* lines 373-382: the two faces of one quad
QuadFaces(quad) ==
    IF quad[1] % 2 = 0
    THEN <<<<quad[1], quad[2], quad[4]>>, <<quad[3], quad[4], quad[2]>>>>
    ELSE <<<<quad[1], quad[2], quad[3]>>, <<quad[1], quad[3], quad[4]>>>>

\* lines 361-382
ReadQuad ==
    /\ pc = "quad"
    /\ LET b == disk[1]
           nvert == _fread3(b, 4)
           nquad == _fread3(b, 7)
           coords == [i \in 1..nvert |->
                        [c \in 1..3 |->
                           <<FromI2(b, 10 + 6 * (i - 1) + 2 * (c - 1)), 100>>]]
           qpos == 10 + 6 * nvert
           quads == [q \in 1..nquad |->
                       [j \in 1..4 |->
                          _fread3(b, qpos + 12 * (q - 1) + 3 * (j - 1))]]
           faces == Flat([q \in 1..nquad |-> QuadFaces(quads[q])])
       IN rloc' = rloc @@ ("nvert" :> nvert) @@ ("nquad" :> nquad) @@
                  ("coords" :> coords) @@ ("quads" :> quads) @@
                  ("faces" :> faces)
    /\ pc' = "log"
    /\ UNCHANGED <<disk, wargs, ret, err, fsframe>>

\* fobj.readline(): the position of the last byte of the line starting at pos
LineEnd(b, pos) ==
    IF \E i \in pos..Len(b) : b[i] = LF
    THEN CHOOSE i \in pos..Len(b) :
            b[i] = LF /\ \A j \in pos..(i - 1) : b[j] # LF
    ELSE Len(b)

\* np.fromfile(fobj, dtype, count): the items read are those the file still
\* holds, at most count; the number of 4-byte items left at pos
ItemsLeft(b, pos) == IF pos > Len(b) THEN 0 ELSE (Len(b) - pos + 1) \div 4

\* lines 385-390.  np.fromfile(...)[0] of an exhausted file raises
\* IndexError; reshape of fewer items than vnum * 3 raises ValueError.
ReadTriangle ==
    /\ pc = "triangle"
    /\ LET b == disk[1]
           e1 == LineEnd(b, 4)
           e2 == LineEnd(b, e1 + 1)
           create_stamp == SubSeq(b, 4, e1)
           vnum == FromI4(b, e2 + 1)
           fnum == FromI4(b, e2 + 5)
           cpos == e2 + 9
           ngot == Min(vnum * 3, ItemsLeft(b, cpos))
           fpos == cpos + 4 * ngot
           fgot == Min(fnum * 3, ItemsLeft(b, fpos))
           coords == [i \in 1..vnum |->
                        [c \in 1..3 |-> FromF4(b, cpos + 12 * (i - 1) + 4 * (c - 1))]]
           faces == [i \in 1..fnum |->
                       [c \in 1..3 |-> FromI4(b, fpos + 12 * (i - 1) + 4 * (c - 1))]]
       IN IF ItemsLeft(b, e2 + 1) < 2
          THEN /\ rloc' = rloc @@ ("create_stamp" :> create_stamp)
               /\ pc' = "raised"
               /\ err' = "IndexError"
          ELSE IF vnum < 0 \/ fnum < 0 \/ ngot # vnum * 3 \/ fgot # fnum * 3
          THEN /\ rloc' = rloc @@ ("create_stamp" :> create_stamp) @@
                          ("vnum" :> vnum) @@ ("fnum" :> fnum)
               /\ pc' = "raised"
               /\ err' = "ValueError"
          ELSE /\ rloc' = rloc @@ ("create_stamp" :> create_stamp) @@
                          ("vnum" :> vnum) @@ ("fnum" :> fnum) @@
                          ("coords" :> coords) @@ ("faces" :> faces)
               /\ pc' = "log"
               /\ UNCHANGED err
    /\ UNCHANGED <<disk, wargs, ret, fsframe>>

\* lines 394-398: the log line reads create_stamp, which only the triangle
\* branch assigns; then coords and faces are returned.
LogAndReturn ==
    /\ pc = "log"
    /\ IF "create_stamp" \notin DOMAIN rloc
       THEN /\ pc' = "raised"
            /\ err' = "UnboundLocalError"
            /\ UNCHANGED ret
       ELSE /\ ret' = Some([coords |-> rloc.coords, faces |-> rloc.faces])
            /\ pc' = "done"
            /\ UNCHANGED err
    /\ UNCHANGED <<disk, wargs, rloc, fsframe>>

-----------------------------------------------------------------------------
(* The FreeSurfer files and arguments the codec is run on *)

\* the longest create_stamp
MaxStamp == 2
\* the most quads in a legacy quad file
MaxQuad == 2

\* the characters of a create_stamp: a letter and the two line breaks
StampChars == {97, LF, CR}
Stamps == SeqsUpTo(StampChars, MaxStamp)

\* quads over the 4 vertices, 0-based
QuadRows == {q \in [1..4 -> 0..3] : \A i, j \in 1..4 : q[i] = q[j] => i = j}

\* a legacy quad file: magic, nvert, nquad, coordinates in 1/100, quads
QuadBytes(magic, coords, quads) ==
    U3(magic) \o U3(Len(coords)) \o U3(Len(quads))
    \o Flat([i \in DOMAIN coords |-> Flat([c \in 1..3 |-> I2(coords[i][c])])])
    \o Flat([i \in DOMAIN quads |-> Flat([j \in 1..4 |-> U3(quads[i][j])])])

\* vertex coordinates of a quad file, in 1/100
QuadCoords ==
    {[i \in 1..4 |-> [c \in 1..3 |-> m * Points[i][c]]] : m \in {100, -100}}

QuadArgs ==
    [magic : QuadMagic, coords : QuadCoords,
     quads : SeqsUpTo(QuadRows, MaxQuad) \ {<<>>}]

WriteArgs ==
    [coords : {SubSeq(Points, 1, n) : n \in 3..Len(Points)},
     faces : SeqsUpTo(TriRows(Len(Points)), MaxTri),
     create_stamp : Stamps]

\* Either a quad file is on disk and read_surface is called on it, or
\* write_surface is called and read_surface is called on what it wrote.
\* wargs holds what the file is made from.
InitFS ==
    /\ ico_surf = None
    /\ \/ /\ wargs \in {Some(a) : a \in QuadArgs}
          /\ disk = Some(QuadBytes(wargs[1].magic, wargs[1].coords, wargs[1].quads))
          /\ pc = "read_surface"
       \/ /\ wargs \in {Some(a) : a \in WriteArgs}
          /\ disk = None
          /\ pc = "write_surface"
    /\ rloc = <<>>
    /\ ret = None
    /\ err = ""
    /\ tree = [bem |-> None]
    /\ add_geom = FALSE
    /\ s_id = None
    /\ fid = "none"
    /\ coord_frame = FIFFV_COORD_MRI
    /\ k = 1
    /\ surfs = <<>>
    /\ surf = None

NextFS ==
    \/ write_surface
    \/ ReadMagic
    \/ ReadQuad
    \/ ReadTriangle
    \/ LogAndReturn

SpecFS == InitFS /\ [][NextFS]_vars

-----------------------------------------------------------------------------
(* Properties of the FreeSurfer codec *)

\* read_surface or write_surface has returned or raised
FSTerminal == pc \in {"done", "raised"}

\* the file on disk is a legacy quad file
QuadCase == wargs # None /\ "quads" \in DOMAIN wargs[1]

\* write_surface was called
WriteCase == wargs # None /\ "create_stamp" \in DOMAIN wargs[1]

\* create_stamp contains a line break
HasLineBreak(create_stamp) ==
    \E i \in DOMAIN create_stamp : create_stamp[i] \in {LF, CR}

\* the triangles the parity rule gives for the quads of the file
SplitRule(quads) ==
    Flat([q \in DOMAIN quads |->
            LET v0 == quads[q][1]
                v1 == quads[q][2]
                v2 == quads[q][3]
                v3 == quads[q][4]
            IN IF v0 % 2 = 0
               THEN <<<<v0, v1, v3>>, <<v2, v3, v1>>>>
               ELSE <<<<v0, v1, v2>>, <<v0, v2, v3>>>>])

\* C7: read_surface on a legacy quad file with nvert vertices and nquad
\* quads returns successfully, with nvert coordinates and the 2*nquad
\* 0-based triangles the even/odd rule on each quad's first index gives,
\* in quad order.
C7_QuadFileRead ==
    (QuadCase /\ FSTerminal) =>
        /\ pc = "done"
        /\ Len(ret[1].coords) = Len(wargs[1].coords)
        /\ Len(ret[1].faces) = 2 * Len(wargs[1].quads)
        /\ ret[1].faces = SplitRule(wargs[1].quads)

\* What read_surface has computed on a quad file when it reaches the log
\* line: the coordinates and the split are right, create_stamp is unbound.
C7_QuadComputed ==
    (QuadCase /\ pc = "log") =>
        /\ Len(rloc.coords) = Len(wargs[1].coords)
        /\ rloc.faces = SplitRule(wargs[1].quads)
        /\ "create_stamp" \notin DOMAIN rloc

\* C8: write_surface fails with an invalid-argument error, before the file
\* is created, for every create_stamp containing a line break (a single
\* trailing or leading newline included) and accepts every other stamp.
C8_StampValidated ==
    (WriteCase /\ pc # "write_surface") =>
        IF HasLineBreak(wargs[1].create_stamp)
        THEN /\ disk = None
             /\ pc = "raised"
             /\ err = "create_stamp can only contain one line"
        ELSE disk # None

\* What the guard of write_surface does decide: a stamp of two or more
\* lines is rejected before the file is created, any other is written.
C8_LineCount ==
    (WriteCase /\ pc # "write_surface") =>
        (disk = None <=> Len(splitlines(wargs[1].create_stamp)) > 1)

\* C9: for any vertices, 0-based triangles and create_stamp accepted by
\* write_surface, read_surface of the written file takes the triangle
\* branch and returns as many vertices and the same triangle array.
C9_SurfaceRoundTrip ==
    (WriteCase /\ disk # None /\ FSTerminal) =>
        /\ pc = "done"
        /\ rloc.magic = TriangleMagic
        /\ Len(ret[1].coords) = Len(wargs[1].coords)
        /\ ret[1].faces = wargs[1].faces

\* The round trip of a stamp without a line break.
C9_PlainStampRoundTrip ==
    (WriteCase /\ ~HasLineBreak(wargs[1].create_stamp) /\ FSTerminal) =>
        /\ pc = "done"
        /\ rloc.magic = TriangleMagic
        /\ ret[1].faces = wargs[1].faces
        /\ ret[1].coords =
             [i \in DOMAIN wargs[1].coords |->
                [c \in 1..3 |-> <<wargs[1].coords[i][c], 1>>]]

-----------------------------------------------------------------------------
(* read_curvature, surface.py lines 327-339 *)

FullSizeMagic == 16777215

\* lines 329-335: the magic number and the vertex count
ReadCurvHeader ==
    /\ pc = "read_curvature"
    /\ LET magic == _fread3(disk[1], 1)
       IN rloc' = ("magic" :> magic) @@
                  ("vnum" :> IF magic = FullSizeMagic
                             THEN FromI4(disk[1], 4)
                             ELSE magic)
    /\ pc' = "curv"
    /\ UNCHANGED <<disk, wargs, ret, err, fsframe>>

\* line 336: int16 values / 100 is the integer quotient, rounded down
PackedCurv(raw) == raw \div 100

\* line 337: curv != 0, of a float (a pair) in the full-size encoding and
\* of an integer in the packed one
NonZero(magic, v) == IF magic = FullSizeMagic THEN v[1] # 0 ELSE v # 0

\* lines 332, 336-338
ReadCurvValues ==
    /\ pc = "curv"
    /\ LET b == disk[1]
           vnum == rloc.vnum
           curv == IF rloc.magic = FullSizeMagic
                   THEN [i \in 1..vnum |-> FromF4(b, 16 + 4 * (i - 1))]
                   ELSE [i \in 1..vnum |-> PackedCurv(FromI2(b, 7 + 2 * (i - 1)))]
           bin_curv == [i \in 1..vnum |-> 1 - (IF NonZero(rloc.magic, curv[i]) THEN 1 ELSE 0)]
       IN /\ rloc' = rloc @@ ("curv" :> curv) @@ ("bin_curv" :> bin_curv)
          /\ ret' = Some(bin_curv)
    /\ pc' = "done"
    /\ UNCHANGED <<disk, wargs, err, fsframe>>

\* the most vertices of a curvature file
MaxCurv == 3

\* curvature values stored as floats, and as integers in 1/100
FloatCurvs == {e[1] : e \in F4Table}
PackedCurvs == {0, 50, -50, 100, -150}

\* a curvature file: full-size (magic, vnum, fnum, values per vertex, then
\* floats) or packed (vnum, fnum, then 2-byte integers)
CurvBytes(encoding, values) ==
    IF encoding = "full"
    THEN U3(FullSizeMagic) \o I4(Len(values)) \o I4(2 * Len(values)) \o I4(1)
         \o Flat([i \in DOMAIN values |-> F4(values[i])])
    ELSE U3(Len(values)) \o U3(2 * Len(values))
         \o Flat([i \in DOMAIN values |-> I2(values[i])])

CurvArgs ==
    [encoding : {"full"}, values : SeqsUpTo(FloatCurvs, MaxCurv)]
    \cup [encoding : {"packed"}, values : SeqsUpTo(PackedCurvs, MaxCurv)]

InitCurv ==
    /\ ico_surf = None
    /\ wargs \in {Some(a) : a \in CurvArgs}
    /\ disk = Some(CurvBytes(wargs[1].encoding, wargs[1].values))
    /\ pc = "read_curvature"
    /\ rloc = <<>>
    /\ ret = None
    /\ err = ""
    /\ tree = [bem |-> None]
    /\ add_geom = FALSE
    /\ s_id = None
    /\ fid = "none"
    /\ coord_frame = FIFFV_COORD_MRI
    /\ k = 1
    /\ surfs = <<>>
    /\ surf = None

NextCurv ==
    \/ ReadCurvHeader
    \/ ReadCurvValues

SpecCurv == InitCurv /\ [][NextCurv]_vars

\* the value stored in the file for a vertex is zero
StoredZero(v) == IF wargs[1].encoding = "full" THEN v[1] = 0 ELSE v = 0

\* C10: read_curvature returns, for each of the vnum vertices, 1 exactly
\* when the raw curvature value stored for the vertex is zero and 0
\* otherwise, in the full-size and in the packed encoding; a stored packed
\* value of 50 or -50 gives 0.
C10_Binarized ==
    pc = "done" =>
        /\ Len(ret[1]) = Len(wargs[1].values)
        /\ \A i \in DOMAIN wargs[1].values :
              ret[1][i] = IF StoredZero(wargs[1].values[i]) THEN 1 ELSE 0

\* The full-size encoding is binarized as stated.
C10_FullSize ==
    (pc = "done" /\ wargs[1].encoding = "full") =>
        /\ Len(ret[1]) = Len(wargs[1].values)
        /\ \A i \in DOMAIN wargs[1].values :
              ret[1][i] = IF StoredZero(wargs[1].values[i]) THEN 1 ELSE 0

\* The packed encoding gives 1 exactly for the stored values 0..99.
C10_PackedFloor ==
    (pc = "done" /\ wargs[1].encoding = "packed") =>
        \A i \in DOMAIN wargs[1].values :
            ret[1][i] = 1 <=> wargs[1].values[i] \in 0..99

-----------------------------------------------------------------------------
(* _complete_surface_info with do_neighbor_vert, surface.py lines 247-308. *)
(* surf holds the dict this, k the vertex of the neighbor_vert list being  *)
(* built and rloc the entries built so far.                                *)

geomframe == <<tree, add_geom, s_id, fid, coord_frame, surfs, disk, ico_surf>>

\* sorted(set(s)): the ascending sequence of the elements of a set of integers
RECURSIVE Ascending(_)
Ascending(S) ==
    IF S = {} THEN <<>>
    ELSE LET m == CHOOSE x \in S : \A y \in S : x <= y
         IN <<m>> \o Ascending(S \ {m})

\* _get_surf_neighbors (lines 294-308), k 0-based.  Indexing the cleared
\* neighbor_tri (an empty array) raises IndexError; np.concatenate of no
\* arrays raises ValueError.
_get_surf_neighbors(this, kk) ==
    LET nts == this.neighbor_tri[kk + 1]
        verts == Ascending({this.tris[nts[i] + 1][c] :
                               i \in DOMAIN nts, c \in 1..3} \ {kk})
        nneighbors == Len(verts)
        nneigh_max == Len(nts)
    IN IF kk + 1 \notin DOMAIN this.neighbor_tri
       THEN [raised |-> TRUE, msg |-> "IndexError", res |-> <<>>]
       ELSE IF nts = <<>>
       THEN [raised |-> TRUE, msg |-> "ValueError", res |-> <<>>]
       ELSE IF \E i \in DOMAIN verts : verts[i] >= this.np
       THEN [raised |-> TRUE, msg |-> "RuntimeError", res |-> <<>>]
       ELSE IF nneighbors > nneigh_max
       THEN [raised |-> TRUE, msg |-> "Too many neighbors for vertex", res |-> <<>>]
       ELSE [raised |-> FALSE, msg |-> "", res |-> verts]

\* lines 247-284, and the return at 291 when do_neighbor_vert is not True
CompleteSurface ==
    /\ pc = "complete"
    /\ LET c == _complete_surface_info(wargs[1].this)
       IN IF c.raised
          THEN /\ pc' = "raised"
               /\ err' = c.msg
               /\ UNCHANGED <<surf, ret>>
          ELSE /\ surf' = Some(c.this)
               /\ UNCHANGED err
               /\ IF wargs[1].do_neighbor_vert
                  THEN pc' = "neighbor_vert" /\ UNCHANGED ret
                  ELSE pc' = "done" /\ ret' = Some(c.this)
    /\ UNCHANGED <<wargs, rloc, k, geomframe>>

\* lines 288-289: one iteration of the list comprehension
NeighborVert ==
    /\ pc = "neighbor_vert"
    /\ k < surf[1].np
    /\ LET g == _get_surf_neighbors(surf[1], k)
       IN IF g.raised
          THEN /\ pc' = "raised"
               /\ err' = g.msg
               /\ UNCHANGED <<rloc, k>>
          ELSE /\ rloc' = Append(rloc, g.res)
               /\ k' = k + 1
               /\ UNCHANGED <<pc, err>>
    /\ UNCHANGED <<wargs, surf, ret, geomframe>>

\* lines 288-291: the list is stored and this is returned
ReturnThis ==
    /\ pc = "neighbor_vert"
    /\ k = surf[1].np
    /\ surf' = Some(With(surf[1], "neighbor_vert", rloc))
    /\ ret' = surf'
    /\ pc' = "done"
    /\ UNCHANGED <<wargs, rloc, k, err, geomframe>>

\* the most triangles of a mesh
MaxMeshTri == 7

\* vertex positions: all in the plane z = 0, so that every cross product
\* has an integer length
MeshPoints == <<<<0, 0, 0>>, <<1, 0, 0>>, <<0, 1, 0>>, <<1, 1, 0>>, <<2, 2, 0>>>>

\* the triangles meshes are made of: a fan around vertex 4, a closed
\* tetrahedron on the vertices 0..3, and a triangle of collinear points
TriPool ==
    <<<<4, 0, 1>>, <<4, 1, 2>>, <<4, 2, 3>>, <<0, 1, 2>>, <<0, 2, 3>>,
      <<0, 1, 3>>, <<1, 2, 3>>, <<0, 3, 4>>>>

\* the triangles of the pool whose positions are in S, in pool order
PoolTris(S) ==
    LET pos == Ascending(S) IN [i \in DOMAIN pos |-> TriPool[pos[i]]]

Meshes ==
    {[np |-> n, ntri |-> Cardinality(S), rr |-> SubSeq(MeshPoints, 1, n),
      tris |-> PoolTris(S)] :
        n \in {4, 5},
        S \in {T \in SUBSET (1..Len(TriPool)) :
                  T # {} /\ Cardinality(T) <= MaxMeshTri}}

InitGeom ==
    /\ ico_surf = None
    /\ wargs \in {Some([this |-> m, do_neighbor_vert |-> b]) :
                     m \in Meshes, b \in BOOLEAN}
    /\ surf = Some(wargs[1].this)
    /\ pc = "complete"
    /\ k = 0
    /\ rloc = <<>>
    /\ ret = None
    /\ err = ""
    /\ tree = [bem |-> None]
    /\ add_geom = FALSE
    /\ s_id = None
    /\ fid = "none"
    /\ coord_frame = FIFFV_COORD_MRI
    /\ surfs = <<>>
    /\ disk = None

NextGeom ==
    \/ CompleteSurface
    \/ NeighborVert
    \/ ReturnThis

SpecGeom == InitGeom /\ [][NextGeom]_vars

-----------------------------------------------------------------------------
(* Properties of geometry completion *)

\* the mesh _complete_surface_info was called on
mesh == wargs[1].this

\* every triangle index of the mesh is a vertex of it
InRange(m) ==
    \A p \in DOMAIN m.tris : \A c \in 1..3 :
        0 <= m.tris[p][c] /\ m.tris[p][c] < m.np

\* the triangles (0-based, ascending) that reference vertex v
Incident(m, v) ==
    Ascending({p - 1 : p \in {q \in DOMAIN m.tris :
                                 \E c \in 1..3 : m.tris[q][c] = v}})

\* vertex v has fewer than three incident triangles
Defective(m, v) == Len(Incident(m, v)) < 3

\* C11: after _complete_surface_info only the vertices with fewer than 3
\* incident triangles have their adjacency cleared; every other vertex
\* keeps the ascending list of the triangles that reference it, and
\* neighbor_tri has one entry per vertex.
C11_OnlyDefectsCleared ==
    (pc = "done" /\ ~wargs[1].do_neighbor_vert) =>
        /\ Len(ret[1].neighbor_tri) = mesh.np
        /\ \A v \in 0..(mesh.np - 1) :
              ret[1].neighbor_tri[v + 1] =
                 IF Defective(mesh, v) THEN <<>> ELSE Incident(mesh, v)

\* What the code does: a mesh without a defective vertex keeps every list,
\* a mesh with one loses the whole of neighbor_tri.
C11_AllOrNothing ==
    (pc = "done" /\ ~wargs[1].do_neighbor_vert) =>
        IF \E v \in 0..(mesh.np - 1) : Defective(mesh, v)
        THEN ret[1].neighbor_tri = <<>>
        ELSE ret[1].neighbor_tri =
                [i \in 1..mesh.np |-> Incident(mesh, i - 1)]

\* (r2 - r1) x (r3 - r1) of triangle p of the mesh, component by component
CrossOf(m, p) ==
    LET a == m.rr[m.tris[p][1] + 1]
        b == m.rr[m.tris[p][2] + 1]
        c == m.rr[m.tris[p][3] + 1]
        u == <<b[1] - a[1], b[2] - a[2], b[3] - a[3]>>
        w == <<c[1] - a[1], c[2] - a[2], c[3] - a[3]>>
    IN <<u[2] * w[3] - u[3] * w[2], u[3] * w[1] - u[1] * w[3],
         u[1] * w[2] - u[2] * w[1]>>

\* n is v divided by its own length
UnitOf(n, v) ==
    /\ n[1] * n[1] + n[2] * n[2] + n[3] * n[3] = 1
    /\ \E len \in 1..(v[1] * v[1] + v[2] * v[2] + v[3] * v[3]) :
          /\ len * len = v[1] * v[1] + v[2] * v[2] + v[3] * v[3]
          /\ <<n[1] * len, n[2] * len, n[3] * len>> = v

\* C12: geometry completion never raises because of degenerate geometry.
\* For a mesh with a triangle whose cross product is zero it completes;
\* that triangle has tri_area 0 and the zero vector as tri_nn, every other
\* triangle's tri_nn is its cross product divided by its own length.
C12_DegenerateTolerated ==
    (pc # "complete" /\ "this" \in DOMAIN wargs[1] /\ InRange(mesh)) =>
        /\ HasGeom(surf[1])
        /\ ~wargs[1].do_neighbor_vert => pc = "done"
        /\ \A p \in DOMAIN mesh.tris :
              IF CrossOf(mesh, p) = <<0, 0, 0>>
              THEN /\ surf[1].tri_area[p] = <<0, 2>>
                   /\ surf[1].tri_nn[p] = <<0, 0, 0>>
              ELSE UnitOf(surf[1].tri_nn[p], CrossOf(mesh, p))

\* a mesh with a zero-size triangle and one of size 3 has been completed
C12_Witness ==
    /\ pc = "done"
    /\ ~wargs[1].do_neighbor_vert
    /\ \E p, q \in DOMAIN mesh.tris :
          /\ CrossOf(mesh, p) = <<0, 0, 0>>
          /\ ret[1].tri_nn[p] = <<0, 0, 0>>
          /\ CrossOf(mesh, q) = <<0, 0, -3>>
          /\ ret[1].tri_nn[q] = <<0, 0, -1>>

\* the neighbours of vertex v: the vertices of its incident triangles but v
NeighborsOf(m, v) ==
    Ascending({m.tris[p][c] :
                  p \in {q \in DOMAIN m.tris : \E d \in 1..3 : m.tris[q][d] = v},
                  c \in 1..3} \ {v})

\* vertex v has more neighbours than incident triangles
TooMany(m, v) == Len(NeighborsOf(m, v)) > Len(Incident(m, v))

\* C13: with do_neighbor_vert, neighbor_vert[k] is the set of the vertices
\* of the triangles incident to k, without k; the operation fails with
\* 'Too many neighbors' iff for some vertex that set is larger than the
\* number of incident triangles, and tolerates a smaller one.
C13_NeighborVert ==
    (Terminal /\ wargs[1].do_neighbor_vert /\ InRange(mesh)) =>
        IF \E v \in 0..(mesh.np - 1) : TooMany(mesh, v)
        THEN pc = "raised" /\ err = "Too many neighbors for vertex"
        ELSE /\ pc = "done"
             /\ ret[1].neighbor_vert =
                   [i \in 1..mesh.np |-> NeighborsOf(mesh, i - 1)]

\* The same on the meshes whose vertices all have three or more incident
\* triangles.
C13_WithoutDefects ==
    (Terminal /\ wargs[1].do_neighbor_vert /\ InRange(mesh)
       /\ \A v \in 0..(mesh.np - 1) : ~Defective(mesh, v)) =>
        IF \E v \in 0..(mesh.np - 1) : TooMany(mesh, v)
        THEN pc = "raised" /\ err = "Too many neighbors for vertex"
        ELSE /\ pc = "done"
             /\ ret[1].neighbor_vert =
                   [i \in 1..mesh.np |-> NeighborsOf(mesh, i - 1)]

\* On a mesh with a defective vertex the first lookup in the cleared
\* neighbor_tri raises IndexError.
C13_DefectRaises ==
    (Terminal /\ wargs[1].do_neighbor_vert /\ InRange(mesh)
       /\ \E v \in 0..(mesh.np - 1) : Defective(mesh, v)) =>
        pc = "raised" /\ err = "IndexError"

-----------------------------------------------------------------------------
(* _tessellate_sphere, surface.py lines 467-544.                           *)
(* A vertex of the tessellation is named by the point of the octahedron    *)
(* |x| + |y| + |z| = 2^(mylevel-1) it is the subdivision of: the octahedron *)
(* vertices are the unit vectors times that scale and the normalized       *)
(* midpoint of two vertices is named by the midpoint of their names.  Two  *)
(* vertices are closer than 1e-4 exactly when they have the same name: the *)
(* distinct vertices of a subdivision of level up to 10 are further apart  *)
(* than 1e-3.                                                              *)

tessframe == <<tree, add_geom, s_id, fid, coord_frame, surfs, disk, surf, k,
               ico_surf>>

\* lines 470-474
OctRR == <<<<1, 0, 0>>, <<-1, 0, 0>>, <<0, 1, 0>>, <<0, -1, 0>>,
           <<0, 0, 1>>, <<0, 0, -1>>>>
OctTris == <<<<0, 4, 2>>, <<2, 4, 1>>, <<1, 4, 3>>, <<3, 4, 0>>,
             <<0, 2, 5>>, <<2, 1, 5>>, <<1, 3, 5>>, <<3, 0, 5>>>>

\* lines 477-482
TessStart ==
    /\ pc = "tessellate"
    /\ IF wargs[1].mylevel < 1
       THEN /\ pc' = "raised"
            /\ err' = "# of levels must be >= 1"
            /\ UNCHANGED rloc
       ELSE /\ rloc' = [rr |-> [i \in DOMAIN OctRR |->
                                  [c \in 1..3 |->
                                     OctRR[i][c] * 2 ^ (wargs[1].mylevel - 1)]],
                        tris |-> [t \in DOMAIN OctTris |->
                                    <<OctTris[t][3], OctTris[t][2], OctTris[t][1]>>],
                        level |-> 1]
            /\ pc' = "subdivide"
            /\ UNCHANGED err
    /\ UNCHANGED <<wargs, ret, tessframe>>

\* _norm_midpt (lines 460-464), row t: the normalized midpoint of rr[ai[t]]
\* and rr[bi[t]]
_norm_midpt(a, b) ==
    <<(a[1] + b[1]) \div 2, (a[2] + b[2]) \div 2, (a[3] + b[3]) \div 2>>

\* lines 519-523 with only three of the four triangles
SubTrisMut(tri, ai, bi, ci) ==
    <<<<tri[1], bi, ai>>, <<bi, tri[2], ci>>, <<ai, bi, ci>>>>

\* lines 519-523: the four triangles replacing tri
SubTris(tri, ai, bi, ci) ==
    <<<<tri[1], bi, ai>>, <<bi, tri[2], ci>>, <<ai, bi, ci>>,
      <<ai, ci, tri[3]>>>>

\* lines 485-523: one subdivision
Subdivide ==
    /\ pc = "subdivide"
    /\ rloc.level < wargs[1].mylevel
    /\ LET rr == rloc.rr
           tris == rloc.tris
           n == Len(tris)
           a == [t \in 1..n |-> _norm_midpt(At(rr, tris[t][1]), At(rr, tris[t][3]))]
           b == [t \in 1..n |-> _norm_midpt(At(rr, tris[t][1]), At(rr, tris[t][2]))]
           c == [t \in 1..n |-> _norm_midpt(At(rr, tris[t][2]), At(rr, tris[t][3]))]
           aidx(t) == Len(rr) + (t - 1)
           bidx(t) == Len(rr) + n + (t - 1)
           cidx(t) == Len(rr) + 2 * n + (t - 1)
       IN rloc' = [rr |-> rr \o a \o b \o c,
                   tris |-> Flat([t \in 1..n |->
                                    SubTris(tris[t], aidx(t), bidx(t), cidx(t))]),
                   level |-> rloc.level + 1]
    /\ UNCHANGED <<pc, wargs, ret, err, tessframe>>

\* lines 528-531: the tables of the deduplication
TessTable ==
    /\ pc = "subdivide"
    /\ rloc.level = wargs[1].mylevel
    /\ rloc' = rloc @@ [ntri |-> Len(rloc.tris), nodes |-> <<>>,
                        corners |-> <<>>, k |-> 0]
    /\ pc' = "copy"
    /\ UNCHANGED <<wargs, ret, err, tessframe>>

\* lines 535-536: np.where(dists < 1e-4)[0], the 0-based indices of the
\* nodes at the position pt, ascending
Close(nodes, pt) ==
    LET idx == SelectSeq([i \in DOMAIN nodes |-> i], LAMBDA i : nodes[i] = pt)
    IN [j \in DOMAIN idx |-> idx[j] - 1]

\* lines 535-542: one corner; the nodes after it and its index
Corner(nodes, pt) ==
    IF Len(Close(nodes, pt)) > 0
    THEN [nodes |-> nodes, corner |-> Close(nodes, pt)[1]]
    ELSE [nodes |-> Append(nodes, pt), corner |-> Len(nodes)]

\* lines 532-542: one triangle of the deduplication
CopyTriangle ==
    /\ pc = "copy"
    /\ rloc.k < rloc.ntri
    /\ LET tri == rloc.tris[rloc.k + 1]
           coords == [j \in 1..3 |-> At(rloc.rr, tri[j])]
           c0 == Corner(rloc.nodes, coords[1])
           c1 == Corner(c0.nodes, coords[2])
           c2 == Corner(c1.nodes, coords[3])
       IN rloc' = [rloc EXCEPT !.nodes = c2.nodes,
                               !.corners = Append(@, <<c0.corner, c1.corner,
                                                       c2.corner>>),
                               !.k = @ + 1]
    /\ UNCHANGED <<pc, wargs, ret, err, tessframe>>

\* lines 543-544
TessReturn ==
    /\ pc = "copy"
    /\ rloc.k = rloc.ntri
    /\ ret' = Some([nodes |-> rloc.nodes, corners |-> rloc.corners])
    /\ pc' = "done"
    /\ UNCHANGED <<wargs, rloc, err, tessframe>>

\* the highest subdivision level
MaxLevel == 3

InitTess ==
    /\ ico_surf = None
    /\ wargs \in {Some([mylevel |-> n]) : n \in -1..MaxLevel}
    /\ pc = "tessellate"
    /\ rloc = <<>>
    /\ ret = None
    /\ err = ""
    /\ tree = [bem |-> None]
    /\ add_geom = FALSE
    /\ s_id = None
    /\ fid = "none"
    /\ coord_frame = FIFFV_COORD_MRI
    /\ k = 0
    /\ surfs = <<>>
    /\ surf = None
    /\ disk = None

NextTess ==
    \/ TessStart
    \/ Subdivide
    \/ TessTable
    \/ CopyTriangle
    \/ TessReturn

SpecTess == InitTess /\ [][NextTess]_vars

\* C14: _tessellate_sphere(level) returns 6 vertices and 8 triangles for
\* level 1 and 8 * 4^(level-1) triangles for every level >= 1, every
\* triangle index referring to a returned vertex; level < 1 fails with
\* the invalid-argument error.
C14_TessellationSize ==
    (Terminal /\ "mylevel" \in DOMAIN wargs[1]) =>
        IF wargs[1].mylevel < 1
        THEN pc = "raised" /\ err = "# of levels must be >= 1"
        ELSE /\ pc = "done"
             /\ Len(ret[1].corners) = 8 * 4 ^ (wargs[1].mylevel - 1)
             /\ wargs[1].mylevel = 1 =>
                   Len(ret[1].nodes) = 6 /\ Len(ret[1].corners) = 8
             /\ \A t \in DOMAIN ret[1].corners : \A j \in 1..3 :
                   ret[1].corners[t][j] \in 0..(Len(ret[1].nodes) - 1)

\* a level-2 sphere has been returned: 32 triangles on 18 merged vertices
C14_Witness ==
    /\ pc = "done"
    /\ wargs[1].mylevel = 2
    /\ Len(ret[1].corners) = 32
    /\ Len(ret[1].nodes) = 18

-----------------------------------------------------------------------------
(* _get_nearest, surface.py lines 434-445.  Distances are compared by      *)
(* their squares.                                                          *)

nearframe == <<tree, add_geom, s_id, fid, coord_frame, surfs, disk, surf, ico_surf>>

\* the squared distance of two rows of the same length
RECURSIVE SqDist(_, _)
SqDist(a, b) ==
    IF a = <<>> THEN 0
    ELSE (Head(a) - Head(b)) * (Head(a) - Head(b)) + SqDist(Tail(a), Tail(b))

\* np.argmin of a flat array: the lowest 0-based index of a least element
argmin(a) ==
    (CHOOSE i \in DOMAIN a :
        /\ \A j \in DOMAIN a : a[i] <= a[j]
        /\ \A j \in 1..(i - 1) : a[j] > a[i]) - 1

\* NearestNeighbors(n_neighbors=1).fit(fro).kneighbors(to)[1].ravel(): for
\* each row of to the index of the nearest row of fro, the lowest on a tie
kneighbors(to, fro) ==
    [i \in DOMAIN to |-> argmin([j \in DOMAIN fro |-> SqDist(to[i], fro[j])])]

\* t[:, np.newaxis] of a vector t: one row per component
NewAxis(t) == [i \in DOMAIN t |-> <<t[i]>>]

\* scipy cdist(XA, XB): XA and XB must have the same number of columns;
\* the result has one row per row of XA
cdist(XA, XB) ==
    IF Len(XA[1]) # Len(XB[1])
    THEN [raised |-> TRUE, msg |-> "ValueError", res |-> <<>>]
    ELSE [raised |-> FALSE, msg |-> "",
          res |-> [i \in DOMAIN XA |-> [j \in DOMAIN XB |-> SqDist(XA[i], XB[j])]]]

\* lines 437-441: the try block; without sklearn the import raises
NearestTry ==
    /\ pc = "nearest"
    /\ IF wargs[1].sklearn
       THEN /\ ret' = Some(kneighbors(wargs[1].to, wargs[1].fro))
            /\ pc' = "done"
       ELSE /\ pc' = "fallback"
            /\ UNCHANGED ret
    /\ UNCHANGED <<wargs, rloc, k, err, nearframe>>

\* lines 442-444: one point t of the list comprehension of the except block
NearestFallback ==
    /\ pc = "fallback"
    /\ k < Len(wargs[1].to)
    /\ LET c == cdist(NewAxis(wargs[1].to[k + 1]), wargs[1].fro)
       IN IF c.raised
          THEN /\ pc' = "raised"
               /\ err' = c.msg
               /\ UNCHANGED <<rloc, k>>
          ELSE /\ rloc' = Append(rloc, argmin(Flat(c.res)))
               /\ k' = k + 1
               /\ UNCHANGED <<pc, err>>
    /\ UNCHANGED <<wargs, ret, nearframe>>

\* lines 443-445: the list is complete
NearestReturn ==
    /\ pc = "fallback"
    /\ k = Len(wargs[1].to)
    /\ ret' = Some(rloc)
    /\ pc' = "done"
    /\ UNCHANGED <<wargs, rloc, k, err, nearframe>>

\* the most points of 'to' and the most points of 'fro'
MaxTo == 2
MaxFro == 2

NearPoints == {<<0, 0, 0>>, <<1, 0, 0>>, <<0, 1, 0>>, <<2, 0, 0>>}

InitNear ==
    /\ ico_surf = None
    /\ wargs \in {Some([to |-> t, fro |-> f, sklearn |-> b]) :
                     t \in SeqsUpTo(NearPoints, MaxTo),
                     f \in SeqsUpTo(NearPoints, MaxFro) \ {<<>>},
                     b \in BOOLEAN}
    /\ pc = "nearest"
    /\ k = 0
    /\ rloc = <<>>
    /\ ret = None
    /\ err = ""
    /\ tree = [bem |-> None]
    /\ add_geom = FALSE
    /\ s_id = None
    /\ fid = "none"
    /\ coord_frame = FIFFV_COORD_MRI
    /\ surfs = <<>>
    /\ surf = None
    /\ disk = None

NextNear ==
    \/ NearestTry
    \/ NearestFallback
    \/ NearestReturn

SpecNear == InitNear /\ [][NextNear]_vars

\* i is the lowest index minimising the distance between t and fro[i]
LowestNearest(i, t, fro) ==
    /\ i \in 0..(Len(fro) - 1)
    /\ \A j \in DOMAIN fro :
          /\ SqDist(t, fro[i + 1]) <= SqDist(t, fro[j])
          /\ j < i + 1 => SqDist(t, fro[i + 1]) < SqDist(t, fro[j])

\* C20: without the accelerated index the brute-force fallback of
\* _get_nearest(to, fro) returns, for every point t of to, the lowest index
\* minimising the distance between t and fro[i], and does not fail for any
\* non-empty fro of 3-D points.
C20_FallbackNearest ==
    (Terminal /\ "sklearn" \in DOMAIN wargs[1] /\ ~wargs[1].sklearn) =>
        /\ pc = "done"
        /\ Len(ret[1]) = Len(wargs[1].to)
        /\ \A i \in DOMAIN wargs[1].to :
              LowestNearest(ret[1][i], wargs[1].to[i], wargs[1].fro)

\* What the fallback does: it returns only for an empty 'to' and raises
\* ValueError at the first point otherwise.
C20_FallbackRaises ==
    (Terminal /\ "sklearn" \in DOMAIN wargs[1] /\ ~wargs[1].sklearn) =>
        IF wargs[1].to = <<>>
        THEN pc = "done" /\ ret = Some(<<>>)
        ELSE pc = "raised" /\ err = "ValueError"

-----------------------------------------------------------------------------
(* _create_surf_spacing, surface.py lines 547-607.  surf is the dict of    *)
(* the subject surface, ico_surf the caller's icosphere dict, rloc the     *)
(* locals from_surf, mmap and nmap, k the index of the mapping loop.       *)

spaceframe == <<tree, add_geom, s_id, fid, coord_frame, surfs, disk>>

\* _get_nearest (lines 434-445) as a whole
_get_nearest(to, fro, sklearn) ==
    LET c(i) == cdist(NewAxis(to[i]), fro)
    IN IF sklearn
       THEN [raised |-> FALSE, msg |-> "", res |-> kneighbors(to, fro)]
       ELSE IF \E i \in DOMAIN to : c(i).raised
       THEN [raised |-> TRUE, msg |-> "ValueError", res |-> <<>>]
       ELSE [raised |-> FALSE, msg |-> "",
             res |-> [i \in DOMAIN to |-> argmin(Flat(c(i).res))]]

\* a[i] of a numpy array: a negative index counts from the end
Item(a, i) == IF i < 0 THEN a[Len(a) + i + 1] ELSE a[i + 1]

\* a[i] = v
SetItem(a, i, v) ==
    [a EXCEPT ![IF i < 0 THEN Len(a) + i + 1 ELSE i + 1] = v]

\* line 551: surf = _read_surface_geom(surf), lines 402-414 with add_geom
SpacingRead ==
    /\ pc = "spacing"
    /\ LET s == wargs[1].surf @@ [use_tris |-> wargs[1].surf.tris]
           c == _complete_surface_info(s)
       IN IF c.raised
          THEN /\ pc' = "raised"
               /\ err' = c.msg
               /\ UNCHANGED surf
          ELSE /\ surf' = Some(c.this)
               /\ pc' = "strategy"
               /\ UNCHANGED err
    /\ UNCHANGED <<wargs, rloc, ico_surf, ret, k, spaceframe>>

\* lines 553-565: the sphere is read and normalized, the icosphere is
\* normalized in place, the map is made
SpacingMap ==
    /\ pc = "strategy"
    /\ wargs[1].stype \in {"ico", "oct"}
    /\ LET from_rr == _normalize_vectors(wargs[1].sphere)
           ico_rr == _normalize_vectors(ico_surf.rr)
           g == _get_nearest(ico_rr, from_rr, wargs[1].sklearn)
       IN /\ ico_surf' = [ico_surf EXCEPT !.rr = ico_rr]
          /\ IF g.raised
             THEN /\ pc' = "raised"
                  /\ err' = g.msg
                  /\ UNCHANGED <<rloc, surf>>
             ELSE /\ rloc' = [from_surf |-> [rr |-> from_rr, np |-> Len(from_rr)],
                              mmap |-> g.res, nmap |-> Len(g.res)]
                  /\ surf' = Some(With(surf[1], "inuse",
                                       [i \in 1..surf[1].np |-> 0]))
                  /\ pc' = "loop"
                  /\ UNCHANGED err
    /\ k' = 0
    /\ UNCHANGED <<wargs, ret, spaceframe>>

\* lines 590-592: use_all
SpacingAll ==
    /\ pc = "strategy"
    /\ wargs[1].stype \notin {"ico", "oct"}
    /\ surf' = Some(With(With(surf[1], "inuse", [i \in 1..surf[1].np |-> 1]),
                         "use_tris", None))
    /\ pc' = "finish"
    /\ UNCHANGED <<wargs, rloc, ico_surf, ret, err, k, spaceframe>>

\* line 584 with the flag left unset
MarkInUseMut(inuse, m) == inuse

\* line 584: surf['inuse'][mmap[k]] = True
MarkInUse(inuse, m) == SetItem(inuse, m, 1)

\* lines 571 and 576: inds = np.where(np.logical_not(inuse[neigh]))[0] and
\* neigh[inds[-1]]; None when inds is empty
LastUnused(neigh, inuse) ==
    LET inds == SelectSeq([i \in DOMAIN neigh |-> i],
                          LAMBDA i : Item(inuse, neigh[i]) = 0)
    IN IF inds = <<>> THEN None ELSE Some(neigh[inds[Len(inds)]])

\* lines 566-584: one iteration of the mapping loop
MapVertex ==
    /\ pc = "loop"
    /\ k < rloc.nmap
    /\ LET m == rloc.mmap[k + 1]
           n == surf[1].np
           inuse == surf[1].inuse
           g == _get_surf_neighbors(surf[1], m)
           pick == LastUnused(g.res, inuse)
       IN IF m >= n \/ m < -n
          THEN /\ pc' = "raised"
               /\ err' = "IndexError"
               /\ UNCHANGED <<rloc, surf, k>>
          ELSE IF Item(inuse, m) # 0
          THEN IF g.raised
               THEN /\ pc' = "raised"
                    /\ err' = g.msg
                    /\ UNCHANGED <<rloc, surf, k>>
               ELSE IF pick = None
               THEN /\ pc' = "raised"
                    /\ err' = "Could not find neighbor for vertex"
                    /\ UNCHANGED <<rloc, surf, k>>
               ELSE /\ rloc' = [rloc EXCEPT !.mmap[k + 1] = pick[1]]
                    /\ surf' = Some([surf[1] EXCEPT
                                       !.inuse = MarkInUse(inuse, pick[1])])
                    /\ k' = k + 1
                    /\ UNCHANGED <<pc, err>>
          ELSE IF m < 0 \/ m > n
          THEN /\ pc' = "raised"
               /\ err' = "Map number out of range"
               /\ UNCHANGED <<rloc, surf, k>>
          ELSE /\ surf' = Some([surf[1] EXCEPT !.inuse = MarkInUse(inuse, m)])
               /\ k' = k + 1
               /\ UNCHANGED <<rloc, pc, err>>
    /\ UNCHANGED <<wargs, ico_surf, ret, spaceframe>>

\* lines 586-589: the triangulation of the decimated surface
UseTris ==
    /\ pc = "loop"
    /\ k = rloc.nmap
    /\ surf' = Some([surf[1] EXCEPT !.use_tris =
                       [t \in DOMAIN ico_surf.tris |->
                          [j \in 1..3 |-> Item(rloc.mmap, ico_surf.tris[t][j])]]])
    /\ pc' = "finish"
    /\ UNCHANGED <<wargs, rloc, ico_surf, ret, err, k, spaceframe>>

\* the value of 0.0 / 0.0
NaN == "nan"

\* lines 593-607: counts, vertno, the final normalization and the return
SpacingFinish ==
    /\ pc = "finish"
    /\ LET s == surf[1]
           ones(u) == SelectSeq([i \in DOMAIN u |-> i], LAMBDA i : u[i] # 0)
           sizes == [i \in DOMAIN s.nn |-> Sqrt(SumSq(s.nn[i]))]
           inuse == [i \in DOMAIN s.inuse |->
                       IF sizes[i] <= 0 THEN 0 ELSE s.inuse[i]]
       IN surf' = Some(
            [key \in DOMAIN s \cup {"nuse_tri", "nuse", "vertno",
                                    "subject_his_id"} |->
               CASE key = "nuse_tri" ->
                      IF s.use_tris # None THEN Len(s.use_tris) ELSE 0
                 [] key = "vertno" ->
                      [j \in DOMAIN ones(s.inuse) |-> ones(s.inuse)[j] - 1]
                 [] key = "nn" ->
                      [i \in DOMAIN s.nn |->
                         IF sizes[i] = 0 THEN <<NaN, NaN, NaN>>
                         ELSE VDiv(s.nn[i], sizes[i])]
                 [] key = "inuse" -> inuse
                 [] key = "nuse" -> Len(ones(inuse))
                 [] key = "subject_his_id" -> "subject"
                 [] OTHER -> s[key]])
    /\ ret' = surf'
    /\ pc' = "done"
    /\ UNCHANGED <<wargs, rloc, ico_surf, err, k, spaceframe>>

\* the most vertices of the icosphere
MaxIco == 5

\* the subject surfaces: the closed tetrahedron on 4 vertices, the same
\* with an isolated fifth vertex, and the tetrahedron with the fan around
\* vertex 4
SubjectMeshes ==
    {[np |-> n, ntri |-> Cardinality(S), rr |-> SubSeq(MeshPoints, 1, n),
      tris |-> PoolTris(S)] :
        n \in {4, 5}, S \in {4..7}}
    \cup {[np |-> 5, ntri |-> 7, rr |-> MeshPoints, tris |-> PoolTris(1..7)]}

\* the subject's sphere: n vertices on the axes, at radius 3
Sphere(n) == [i \in 1..n |-> [c \in 1..3 |-> 3 * OctRR[i][c]]]

\* icospheres of radius rad: distinct vertices on the axes, one triangle
\* when there are three vertices or more
IcoSurfs ==
    {[rr |-> [i \in DOMAIN q |-> [c \in 1..3 |-> rad * OctRR[q[i]][c]]],
      np |-> Len(q),
      tris |-> IF Len(q) >= 3 THEN <<<<0, 1, 2>>>> ELSE <<>>,
      ntri |-> IF Len(q) >= 3 THEN 1 ELSE 0] :
        rad \in {1, 2},
        q \in {p \in SeqsUpTo(DOMAIN OctRR, MaxIco) :
                  p # <<>> /\ \A i, j \in DOMAIN p : p[i] = p[j] => i = j}}

\* the guided strategy with the accelerated search on every input; the
\* strategy 'all' and the search without sklearn on icospheres of up to
\* two vertices
SpacingArgs ==
    {[surf |-> m, sphere |-> Sphere(n), stype |-> "ico", sklearn |-> TRUE,
      ico_surf |-> ico] :
        m \in SubjectMeshes, n \in 4..Len(OctRR), ico \in IcoSurfs}
    \cup
    {[surf |-> m, sphere |-> Sphere(m.np), stype |-> st, sklearn |-> b,
      ico_surf |-> ico] :
        m \in SubjectMeshes, st \in {"oct", "all"}, b \in BOOLEAN,
        ico \in {i \in IcoSurfs : i.np <= 2}}

InitSpacing ==
    /\ wargs \in {Some(a) : a \in {b \in SpacingArgs : Len(b.sphere) >= b.surf.np}}
    /\ ico_surf = wargs[1].ico_surf
    /\ surf = None
    /\ pc = "spacing"
    /\ k = 0
    /\ rloc = <<>>
    /\ ret = None
    /\ err = ""
    /\ tree = [bem |-> None]
    /\ add_geom = FALSE
    /\ s_id = None
    /\ fid = "none"
    /\ coord_frame = FIFFV_COORD_MRI
    /\ surfs = <<>>
    /\ disk = None

NextSpacing ==
    \/ SpacingRead
    \/ SpacingMap
    \/ SpacingAll
    \/ MapVertex
    \/ UseTris
    \/ SpacingFinish

SpecSpacing == InitSpacing /\ [][NextSpacing]_vars

-----------------------------------------------------------------------------
(* Properties of the decimation *)

\* the guided strategy runs and the map has been made
Mapping == wargs[1].stype \in {"ico", "oct"} /\ "mmap" \in DOMAIN rloc

\* the number of entries of mmap the loop has settled
Settled == IF pc \in {"loop", "raised"} THEN k ELSE rloc.nmap

\* the number of flags set in inuse
InUseCount(inuse) == Cardinality({i \in DOMAIN inuse : inuse[i] # 0})

\* the map the nearest-neighbour search gave, before conflict resolution
RawMap ==
    kneighbors(_normalize_vectors(wargs[1].ico_surf.rr),
               _normalize_vectors(wargs[1].sphere))

\* C15: with an 'ico'/'oct' strategy, at every step of the mapping loop
\* and on return no two icosphere vertices are mapped to the same subject
\* vertex; the final mmap is injective and after the loop the number of
\* subject vertices in use is the number of icosphere vertices.
C15_MapInjective ==
    (Mapping /\ pc \in {"loop", "raised", "finish", "done"}) =>
        /\ \A i, j \in 1..Settled : rloc.mmap[i] = rloc.mmap[j] => i = j
        /\ pc \in {"loop", "finish"} =>
              /\ InUseCount(surf[1].inuse) = Settled
              /\ \A i \in 1..Settled : Item(surf[1].inuse, rloc.mmap[i]) # 0
        /\ pc \in {"finish", "done"} => Len(rloc.mmap) = wargs[1].ico_surf.np

\* a decimation has returned in which two conflicts were resolved
C15_Witness ==
    /\ pc = "done"
    /\ Mapping
    /\ Cardinality({i \in DOMAIN RawMap : RawMap[i] # rloc.mmap[i]}) >= 2

\* C16: source-space decimation only reads the icosphere passed to it:
\* when _create_surf_spacing has returned or failed, every field of
\* ico_surf, its vertex positions included, is unchanged.
C16_IcoUnchanged ==
    (Terminal /\ "ico_surf" \in DOMAIN wargs[1]) => ico_surf = wargs[1].ico_surf

\* What changes: only rr, which has become the unit-length positions.
C16_IcoNormalized ==
    (Terminal /\ "ico_surf" \in DOMAIN wargs[1]) =>
        /\ \A key \in DOMAIN ico_surf \ {"rr"} :
              ico_surf[key] = wargs[1].ico_surf[key]
        /\ ico_surf.rr \in {wargs[1].ico_surf.rr,
                            _normalize_vectors(wargs[1].ico_surf.rr)}

\* the ascending 0-based indices of the flags set in inuse
InUseIndices(inuse) ==
    Ascending({i - 1 : i \in {j \in DOMAIN inuse : inuse[j] # 0}})

\* C17: on return from _create_surf_spacing vertno is the ascending
\* sequence of the subject vertices whose inuse flag is set in the returned
\* surface and nuse is its length, also when a mapped vertex has a
\* zero-length normal and is marked not-in-use in the final step.
C17_VertnoMatchesInuse ==
    (pc = "done" /\ "ico_surf" \in DOMAIN wargs[1]) =>
        /\ ret[1].vertno = InUseIndices(ret[1].inuse)
        /\ ret[1].nuse = Len(ret[1].vertno)

\* What holds: nuse counts the returned flags, and vertno lists the flags
\* as they were before the zero-length normals were cleared.
C17_NuseCounted ==
    (pc = "done" /\ "ico_surf" \in DOMAIN wargs[1]) =>
        /\ ret[1].nuse = InUseCount(ret[1].inuse)
        /\ \A i \in DOMAIN ret[1].inuse :
              ret[1].inuse[i] # 0 => \E j \in DOMAIN ret[1].vertno :
                                        ret[1].vertno[j] = i - 1

\* C18: in the mapping loop, whenever a raw mapping index mmap[k] is
\* outside 0..np-1, _create_surf_spacing fails with the 'Map number out of
\* range' error and no in-use flag is set for that index.
C18_OutOfRangeRejected ==
    (Mapping /\ pc \in {"loop", "raised", "finish", "done"}) =>
        /\ \A i \in 1..Settled : rloc.mmap[i] \in 0..(surf[1].np - 1)
        /\ (pc = "raised" /\ rloc.mmap[k + 1] \notin 0..(surf[1].np - 1)) =>
              /\ err = "Map number out of range"
              /\ InUseCount(surf[1].inuse) = k

\* What holds: an index of np or more stops the loop, with IndexError.
C18_IndexError ==
    (Mapping /\ pc \in {"loop", "raised", "finish", "done"}) =>
        /\ \A i \in 1..Settled : rloc.mmap[i] \in 0..(surf[1].np - 1)
        /\ (pc = "raised" /\ rloc.mmap[k + 1] \notin 0..(surf[1].np - 1)) =>
              /\ err = "IndexError"
              /\ InUseCount(surf[1].inuse) = k

\* the highest-index neighbour of vertex m of the subject mesh not in use
HighestUnused(m, inuse) ==
    LET free == {v \in Range(NeighborsOf(wargs[1].surf, m)) : inuse[v + 1] = 0}
    IN CHOOSE v \in free : \A w \in free : w <= v

\* C19: conflict resolution takes the icosphere vertices in index order;
\* a candidate already in use is replaced by its highest-index mesh
\* neighbour not yet in use, the operation fails with 'Could not find
\* neighbor' iff all its neighbours are in use, and a candidate not in use
\* is kept.
C19_Step ==
    (pc = "loop" /\ k < rloc.nmap /\ rloc.mmap[k + 1] \in 0..(surf[1].np - 1)) =>
        LET m == rloc.mmap[k + 1]
            inuse == surf[1].inuse
        IN IF inuse[m + 1] = 0
           THEN pc' = "loop" /\ k' = k + 1 /\ rloc'.mmap = rloc.mmap
           ELSE IF \A v \in Range(NeighborsOf(wargs[1].surf, m)) : inuse[v + 1] # 0
           THEN pc' = "raised" /\ err' = "Could not find neighbor for vertex"
           ELSE /\ pc' = "loop"
                /\ k' = k + 1
                /\ rloc'.mmap = [rloc.mmap EXCEPT ![k + 1] = HighestUnused(m, inuse)]

C19_ConflictResolution == [][C19_Step]_vars

\* the subject mesh has no vertex with fewer than three triangles and none
\* with more neighbours than triangles
CleanMesh ==
    \A v \in 0..(wargs[1].surf.np - 1) :
        ~Defective(wargs[1].surf, v) /\ ~TooMany(wargs[1].surf, v)

\* C19 on the subject meshes whose adjacency lookup succeeds.
C19_CleanMeshes == [][CleanMesh => C19_Step]_vars

-----------------------------------------------------------------------------
(* read_morph_map, surface.py lines 733-802.  The morph file is a tagged   *)
(* container whose morph-map blocks carry a from-subject, a to-subject, a  *)
(* hemisphere and a map tag.                                               *)

FIFFB_MNE_MORPH_MAP == 365
FIFF_MNE_MORPH_MAP == 3555
FIFF_MNE_MORPH_MAP_FROM == 3556
FIFF_MNE_MORPH_MAP_TO == 3557
FIFF_MNE_HEMI == 3541
FIFFV_MNE_SURF_LEFT_HEMI == 101
FIFFV_MNE_SURF_RIGHT_HEMI == 102

morphframe == <<add_geom, s_id, coord_frame, surfs, surf, disk, ico_surf>>

\* dir_tree_find(tree, FIFF.FIFFB_MNE_MORPH_MAP): the morph-map blocks.
dir_tree_find_maps(t) == t.maps

\* tag.data of a tag that find_tag did not find: None has no attribute data
AttributeError == "'NoneType' object has no attribute 'data'"

\* lines 757-766: the file named from-to, else the one named to-from
MorphName ==
    /\ pc = "morph_name"
    /\ LET a == wargs[1]
           first == <<a.subject_from, a.subject_to>>
           second == <<a.subject_to, a.subject_from>>
       IN  IF first \in a.exists
           THEN /\ rloc' = [name |-> first]
                /\ pc' = "morph_open"
                /\ err' = err
           ELSE IF second \in a.exists
           THEN /\ rloc' = [name |-> second]
                /\ pc' = "morph_open"
                /\ err' = err
           ELSE /\ rloc' = [name |-> second]
                /\ err' = "The requested morph map does not exist"
                /\ pc' = "raised"
    /\ UNCHANGED <<tree, fid, k, ret, wargs, morphframe>>

\* line 768
MorphOpen ==
    /\ pc = "morph_open"
    /\ fid' = "open"
    /\ pc' = "morph_find"
    /\ UNCHANGED <<tree, k, ret, err, rloc, wargs, morphframe>>

\* lines 771-778
MorphFind ==
    /\ pc = "morph_find"
    /\ LET maps == dir_tree_find_maps(tree)
       IN  IF Len(maps) = 0
           THEN /\ fid' = "closed"
                /\ err' = "Morphing map data not found"
                /\ pc' = "raised"
                /\ UNCHANGED <<rloc, k>>
           ELSE /\ rloc' = [name |-> rloc.name, maps |-> maps,
                            left_map |-> None, right_map |-> None]
                /\ k' = 0
                /\ pc' = "morph_scan"
                /\ UNCHANGED <<fid, err>>
    /\ UNCHANGED <<tree, ret, wargs, morphframe>>

\* tag.data == subject_from and tag.data == subject_to, lines 781-783; the
\* mutant compares the from-subject only.
SubjectsMatchMut(from_tag, to_tag, a) ==
    from_tag[1] = a.subject_from

SubjectsMatch(from_tag, to_tag, a) ==
    /\ from_tag[1] = a.subject_from
    /\ to_tag[1] = a.subject_to

\* lines 780-792: one pass of the loop body over block m.  The result is
\* the pair of maps after the pass, or raised when a tag that is read is
\* absent.
ScanBlock(m, a, left_map, right_map) ==
    LET from_tag == find_tag(m, FIFF_MNE_MORPH_MAP_FROM)
        to_tag == find_tag(m, FIFF_MNE_MORPH_MAP_TO)
        hemi == find_tag(m, FIFF_MNE_HEMI)
        map == find_tag(m, FIFF_MNE_MORPH_MAP)
        keep == [raised |-> FALSE, left_map |-> left_map,
                 right_map |-> right_map]
        fail == [raised |-> TRUE, left_map |-> left_map,
                 right_map |-> right_map]
    IN  IF from_tag = None THEN fail
        ELSE IF from_tag[1] # a.subject_from THEN keep
        ELSE IF to_tag = None THEN fail
        ELSE IF ~SubjectsMatch(from_tag, to_tag, a) THEN keep
        ELSE IF hemi = None THEN fail
        ELSE IF hemi[1] = FIFFV_MNE_SURF_LEFT_HEMI
        THEN IF map = None THEN fail
             ELSE [keep EXCEPT !.left_map = Some(map[1])]
        ELSE IF hemi[1] = FIFFV_MNE_SURF_RIGHT_HEMI
        THEN IF map = None THEN fail
             ELSE [keep EXCEPT !.right_map = Some(map[1])]
        ELSE keep

\* lines 779-792: for m in maps
MorphScan ==
    /\ pc = "morph_scan"
    /\ k < Len(rloc.maps)
    /\ LET r == ScanBlock(rloc.maps[k + 1], wargs[1], rloc.left_map,
                          rloc.right_map)
       IN  IF r.raised
           THEN /\ err' = AttributeError
                /\ pc' = "raised"
                /\ UNCHANGED <<rloc, k>>
           ELSE /\ rloc' = [rloc EXCEPT !.left_map = r.left_map,
                                        !.right_map = r.right_map]
                /\ k' = k + 1
                /\ UNCHANGED <<pc, err>>
    /\ UNCHANGED <<tree, fid, ret, wargs, morphframe>>

\* lines 795-802
MorphReturn ==
    /\ pc = "morph_scan"
    /\ k = Len(rloc.maps)
    /\ fid' = "closed"
    /\ IF rloc.left_map = None
       THEN /\ err' = "Left hemisphere map not found"
            /\ pc' = "raised"
            /\ ret' = ret
       ELSE IF rloc.right_map = None
       THEN /\ err' = "Left hemisphere map not found"
            /\ pc' = "raised"
            /\ ret' = ret
       ELSE /\ ret' = Some(<<rloc.left_map[1], rloc.right_map[1]>>)
            /\ pc' = "done"
            /\ err' = err
    /\ UNCHANGED <<tree, k, rloc, wargs, morphframe>>

MaxMaps == 2
Subjects == {"fsaverage", "sample"}
MapData == {11, 12}

\* A morph-map block with all four tags.
MapBlock(from, to, hemi, map) ==
    (FIFF_MNE_MORPH_MAP_FROM :> from) @@ (FIFF_MNE_MORPH_MAP_TO :> to)
    @@ (FIFF_MNE_HEMI :> hemi) @@ (FIFF_MNE_MORPH_MAP :> map)

\* Blocks of either direction and hemisphere, one with another hemisphere
\* code, and blocks of the requested direction with one tag absent.
MapBlocks ==
    {MapBlock(f, t, h, d) :
        f \in Subjects, t \in Subjects,
        h \in {FIFFV_MNE_SURF_LEFT_HEMI, FIFFV_MNE_SURF_RIGHT_HEMI, 0},
        d \in MapData}
    \cup {Without(MapBlock("sample", "fsaverage",
                           FIFFV_MNE_SURF_LEFT_HEMI, 11), t) :
             t \in {FIFF_MNE_MORPH_MAP_FROM, FIFF_MNE_MORPH_MAP_TO,
                    FIFF_MNE_HEMI, FIFF_MNE_MORPH_MAP}}

MorphFiles ==
    {{}, {<<"sample", "fsaverage">>}, {<<"fsaverage", "sample">>}}

InitMorph ==
    /\ tree \in {[maps |-> b] : b \in SeqsUpTo(MapBlocks, MaxMaps)}
    /\ wargs \in {Some([subject_from |-> "sample",
                        subject_to |-> "fsaverage", exists |-> e]) :
                     e \in MorphFiles}
    /\ pc = "morph_name"
    /\ k = 0
    /\ rloc = <<>>
    /\ ret = None
    /\ err = ""
    /\ add_geom = FALSE
    /\ s_id = None
    /\ fid = "none"
    /\ coord_frame = FIFFV_COORD_MRI
    /\ surfs = <<>>
    /\ surf = None
    /\ disk = None
    /\ ico_surf = None

NextMorph ==
    \/ MorphName
    \/ MorphOpen
    \/ MorphFind
    \/ MorphScan
    \/ MorphReturn

SpecMorph == InitMorph /\ [][NextMorph]_vars

\* The blocks of the file, and the positions of those whose from-subject,
\* to-subject and hemisphere are the requested ones.
MorphBlocks == tree.maps

MatchingMaps(hemi) ==
    {i \in DOMAIN MorphBlocks :
        /\ MorphBlocks[i][FIFF_MNE_MORPH_MAP_FROM] = wargs[1].subject_from
        /\ MorphBlocks[i][FIFF_MNE_MORPH_MAP_TO] = wargs[1].subject_to
        /\ MorphBlocks[i][FIFF_MNE_HEMI] = hemi}

\* Every block carries its four tags.
FourTags ==
    \A i \in DOMAIN MorphBlocks :
        DOMAIN MorphBlocks[i] = {FIFF_MNE_MORPH_MAP_FROM, FIFF_MNE_MORPH_MAP_TO,
                                 FIFF_MNE_HEMI, FIFF_MNE_MORPH_MAP}

LastOf(S) == CHOOSE i \in S : \A j \in S : j <= i

MorphOpened == wargs[1].exists # {}

\* C21: once read_morph_map has ended on an existing file whose morph-map
\* blocks carry their four tags, either both hemispheres have a block whose
\* (from, to, hemisphere) matches the request and the call returned the maps
\* of the last such blocks, or one hemisphere has none and the call raised
\* the hemisphere-not-found error; in both cases, and when the file holds no
\* morph-map block at all, the handle is closed.
C21_MorphMapLookup ==
    (Terminal /\ MorphOpened /\ FourTags) =>
        LET left == MatchingMaps(FIFFV_MNE_SURF_LEFT_HEMI)
            right == MatchingMaps(FIFFV_MNE_SURF_RIGHT_HEMI)
        IN  /\ fid = "closed"
            /\ IF MorphBlocks = <<>>
               THEN pc = "raised" /\ err = "Morphing map data not found"
               ELSE IF left = {} \/ right = {}
               THEN pc = "raised" /\ err = "Left hemisphere map not found"
               ELSE /\ pc = "done"
                    /\ ret = Some(<<MorphBlocks[LastOf(left)][FIFF_MNE_MORPH_MAP],
                                    MorphBlocks[LastOf(right)][FIFF_MNE_MORPH_MAP]>>)

\* A file with a matching left block but no matching right block ended in
\* the not-found error with the handle closed.
C21_Witness ==
    /\ pc = "raised"
    /\ FourTags
    /\ MatchingMaps(FIFFV_MNE_SURF_LEFT_HEMI) # {}
    /\ MatchingMaps(FIFFV_MNE_SURF_RIGHT_HEMI) = {}
    /\ err = "Left hemisphere map not found"
    /\ fid = "closed"

-----------------------------------------------------------------------------
(* The decimated triangulation returned by _create_surf_spacing,           *)
(* lines 588-605.                                                          *)

\* a guided decimation has returned
Decimated == pc = "done" /\ Mapping /\ ret # None

\* the rows of the canonical triangles sent through the final mapping
Remapped ==
    [t \in DOMAIN ico_surf.tris |->
        [j \in 1..3 |-> Item(rloc.mmap, ico_surf.tris[t][j])]]

\* the subject vertex indices that occur in use_tris
UsedIndices ==
    {ret[1].use_tris[t][j] : t \in DOMAIN ret[1].use_tris, j \in 1..3}

\* C22: on successful return from guided decimation, use_tris has one row
\* per canonical icosphere triangle, each row being that triangle's three
\* vertex indices sent through the final mapping; every index in use_tris
\* is a valid subject vertex index whose inuse flag is set in the returned
\* surface; nuse_tri is the number of rows.
C22_UseTris ==
    Decimated =>
        /\ Len(ret[1].use_tris) = Len(ico_surf.tris)
        /\ ret[1].use_tris = Remapped
        /\ ret[1].nuse_tri = Len(ret[1].use_tris)
        /\ \A v \in UsedIndices :
              /\ v \in 0..(ret[1].np - 1)
              /\ ret[1].inuse[v + 1] # 0

\* C22 without the flags: the rows, their count and the index range.
C22_RowsRemapped ==
    Decimated =>
        /\ Len(ret[1].use_tris) = Len(ico_surf.tris)
        /\ ret[1].use_tris = Remapped
        /\ ret[1].nuse_tri = Len(ret[1].use_tris)
        /\ \A v \in UsedIndices : v \in 0..(ret[1].np - 1)

-----------------------------------------------------------------------------
(* _complete_surface_info called again on the surface it returned,         *)
(* lines 247-291.                                                          *)

\* The dict the first call returned is passed to a second call with the
\* same do_neighbor_vert; surfs keeps a copy of the first result.
Reinvoke ==
    /\ pc = "done"
    /\ surfs = <<>>
    /\ surfs' = <<ret[1]>>
    /\ wargs' = Some([this |-> ret[1],
                      do_neighbor_vert |-> wargs[1].do_neighbor_vert])
    /\ surf' = ret
    /\ ret' = None
    /\ rloc' = <<>>
    /\ k' = 0
    /\ pc' = "complete"
    /\ UNCHANGED <<tree, add_geom, s_id, fid, coord_frame, disk, ico_surf, err>>

NextRerun ==
    \/ CompleteSurface
    \/ NeighborVert
    \/ ReturnThis
    \/ Reinvoke

SpecRerun == InitGeom /\ [][NextRerun]_vars

\* the first call has returned and the second has been made
SecondRun == surfs # <<>>

\* C23: a second run of _complete_surface_info on the surface the first
\* run returned does not raise, and when it has returned, rr and tris are
\* as they were and tri_area, tri_nn, tri_cent, neighbor_tri and nn equal
\* those of the first run, for every mesh, defective vertices included.
C23_Reinvocation ==
    SecondRun =>
        /\ pc # "raised"
        /\ pc = "done" =>
              \A key \in GeomKeys \cup {"rr", "tris"} :
                  ret[1][key] = surfs[1][key]

\* The second run has returned on a mesh with a defective vertex, whose
\* adjacency list the first run cleared.
C23_Witness ==
    /\ SecondRun
    /\ pc = "done"
    /\ \E v \in 0..(surfs[1].np - 1) :
          Cardinality({p \in DOMAIN surfs[1].tris :
                          \E j \in 1..3 : surfs[1].tris[p][j] = v}) < 3
    /\ surfs[1].neighbor_tri = <<>>
    /\ ret[1].neighbor_tri = <<>>

-----------------------------------------------------------------------------
(* _triangle_neighbors against the loop it replaces, surface.py lines      *)
(* 224-244: the loop of the comment at lines 228-234 is run step by step   *)
(* next to the vectorized computation.                                     *)

neighframe == <<tree, add_geom, s_id, fid, coord_frame, surfs, surf, disk,
                ico_surf, err>>

\* lines 236-244, and line 228 of the loop: one empty list per vertex
Vectorized ==
    /\ pc = "neighbors"
    /\ \E ties \in {"stable", "reversed"} :
          rloc' = [neighbor_tri |->
                      neighbor_tri_of(wargs[1].tris, wargs[1].npts, ties),
                   naive |-> [v \in 1..wargs[1].npts |-> <<>>]]
    /\ k' = 0
    /\ pc' = "naive"
    /\ UNCHANGED <<wargs, ret, neighframe>>

\* lines 229-233: triangle p is appended to the lists of its three vertices
NaiveAppend ==
    /\ pc = "naive"
    /\ k < Len(wargs[1].tris)
    /\ LET verts == wargs[1].tris[k + 1]
           n1 == [rloc.naive EXCEPT ![verts[1] + 1] = Append(@, k)]
           n2 == [n1 EXCEPT ![verts[2] + 1] = Append(@, k)]
           n3 == [n2 EXCEPT ![verts[3] + 1] = Append(@, k)]
       IN rloc' = [rloc EXCEPT !.naive = n3]
    /\ k' = k + 1
    /\ UNCHANGED <<wargs, pc, ret, neighframe>>

\* line 244
NeighborsReturn ==
    /\ pc = "naive"
    /\ k = Len(wargs[1].tris)
    /\ ret' = Some(rloc.neighbor_tri)
    /\ pc' = "done"
    /\ UNCHANGED <<wargs, rloc, k, neighframe>>

\* the most vertices of an array, and the numbers of triangles it may have
MaxPts == 3
TriangleCounts == {1, 2}

\* every array of one or two rows over the vertices 0..npts-1
NeighborArgs ==
    UNION {{[tris |-> t, npts |-> n] :
               t \in UNION {[1..m -> (0..(n - 1)) \X (0..(n - 1)) \X (0..(n - 1))] :
                               m \in TriangleCounts}} :
           n \in 1..MaxPts}

InitNeigh ==
    /\ wargs \in {Some(a) : a \in NeighborArgs}
    /\ pc = "neighbors"
    /\ k = 0
    /\ rloc = <<>>
    /\ ret = None
    /\ err = ""
    /\ tree = [bem |-> None]
    /\ add_geom = FALSE
    /\ s_id = None
    /\ fid = "none"
    /\ coord_frame = FIFFV_COORD_MRI
    /\ surfs = <<>>
    /\ surf = None
    /\ disk = None
    /\ ico_surf = None

NextNeigh ==
    \/ Vectorized
    \/ NaiveAppend
    \/ NeighborsReturn

SpecNeigh == InitNeigh /\ [][NextNeigh]_vars

\* the triangles with vertex v in some column, and the number of columns
\* of triangle p that hold v
Referencing(v) ==
    {p \in 0..(Len(wargs[1].tris) - 1) :
        \E j \in 1..3 : wargs[1].tris[p + 1][j] = v}

References(v, p) ==
    Cardinality({j \in 1..3 : wargs[1].tris[p + 1][j] = v})

\* C24: _triangle_neighbors(tris, npts) returns npts entries; entry v lists
\* in ascending order the triangles that reference vertex v, once per
\* reference, and nothing else (it is empty for an unreferenced vertex);
\* the list equals the one the per-triangle append loop builds.
C24_TriangleNeighbors ==
    pc = "done" =>
        /\ Len(ret[1]) = wargs[1].npts
        /\ \A v \in 0..(wargs[1].npts - 1) :
              LET e == ret[1][v + 1]
              IN /\ \A i, j \in DOMAIN e : i < j => e[i] <= e[j]
                 /\ Range(e) = Referencing(v)
                 /\ \A p \in Referencing(v) :
                       Cardinality({i \in DOMAIN e : e[i] = p}) = References(v, p)
        /\ ret[1] = rloc.naive

\* Two triangles over the same three vertices, in opposite orders: every
\* vertex is referenced by both.
C24_Witness ==
    /\ pc = "done"
    /\ wargs[1].npts = 3
    /\ wargs[1].tris = <<<<0, 1, 2>>, <<2, 1, 0>>>>
    /\ ret[1] = <<<<0, 1>>, <<0, 1>>, <<0, 1>>>>

-----------------------------------------------------------------------------
(* _tessellate_sphere_surf, surface.py lines 448-457: the surface record   *)
(* built around the tessellation.                                          *)

\* the numpy module, which the name np is bound to in surface.py
numpy == "<module 'numpy'>"

\* lines 449-457, once _tessellate_sphere has returned rr and tris
SphereSurf ==
    /\ pc = "done"
    /\ surf = None
    /\ LET rr == ret[1].nodes
           tris == ret[1].corners
           npt == Len(rr)
           ntri == Len(tris)
           nn == rr
           rad == wargs[1].rad
           s == [rr |-> [i \in DOMAIN rr |-> [c \in 1..3 |-> rr[i][c] * rad]],
                 np |-> npt, tris |-> tris, use_tris |-> tris, ntri |-> ntri,
                 nuse |-> numpy, nn |-> nn,
                 inuse |-> [i \in 1..npt |-> 1]]
       IN /\ surf' = Some(s)
          /\ ret' = Some(s)
    /\ pc' = "returned"
    /\ UNCHANGED <<wargs, rloc, err, k, tree, add_geom, s_id, fid, coord_frame,
                   surfs, disk, ico_surf>>

\* the radii of the sphere
Radii == {1, 2}

InitSurf ==
    /\ wargs \in {Some([mylevel |-> n, rad |-> r]) :
                     n \in -1..MaxLevel, r \in Radii}
    /\ pc = "tessellate"
    /\ rloc = <<>>
    /\ ret = None
    /\ err = ""
    /\ tree = [bem |-> None]
    /\ add_geom = FALSE
    /\ s_id = None
    /\ fid = "none"
    /\ coord_frame = FIFFV_COORD_MRI
    /\ k = 0
    /\ surfs = <<>>
    /\ surf = None
    /\ disk = None
    /\ ico_surf = None

NextSurf ==
    \/ TessStart
    \/ Subdivide
    \/ TessTable
    \/ CopyTriangle
    \/ TessReturn
    \/ SphereSurf

SpecSurf == InitSurf /\ [][NextSurf]_vars

\* C25: in the record _tessellate_sphere_surf returns, np is the number of
\* vertices, ntri the number of triangles, every vertex is marked in use,
\* and nuse is an integer, the count of the vertices in use, equal to np.
C25_RecordConsistent ==
    pc = "returned" =>
        /\ ret[1].np = Len(ret[1].rr)
        /\ ret[1].ntri = Len(ret[1].tris)
        /\ \A i \in 1..ret[1].np : ret[1].inuse[i] = 1
        /\ Len(ret[1].inuse) = ret[1].np
        /\ ret[1].nuse # numpy
        /\ ret[1].nuse = InUseCount(ret[1].inuse)
        /\ ret[1].nuse = ret[1].np

\* C25 without nuse: the counts and the flags.
C25_CountsAndFlags ==
    pc = "returned" =>
        /\ ret[1].np = Len(ret[1].rr)
        /\ ret[1].ntri = Len(ret[1].tris)
        /\ Len(ret[1].inuse) = ret[1].np
        /\ \A i \in 1..ret[1].np : ret[1].inuse[i] = 1
        /\ ret[1].use_tris = ret[1].tris

====
